---- MODULE Spec2Model ----
(***************************************************************************)
(* Mamba (Houston4444/Mamba): the MIDI event pipeline of                   *)
(* src/src/MidiKeyBoard.cpp.                                               *)
(*                                                                         *)
(*   MidiMessenger  the staging table: send_cc / cc_num / pg_num / bg_num  *)
(*                  / me_num, send_midi_cc (producers), next and fill      *)
(*                  (the realtime consumer).                               *)
(*   XJack          the realtime callback process_midi_out: drains the     *)
(*                  table, records into store1/store2, plays rec.play.     *)
(*   MidiRecord     the consolidator thread (appends *st to play).         *)
(*   XKeyBoard      record_callback / play_callback on the UI thread.      *)
(*   MidiKeyboard   (src/src/xkeyboard.c) the key matrix and the handlers   *)
(*                  key_press / key_release (KeysSpec, MatrixSpec).        *)
(*   AnimatedKeyBoard, MidiRecord   start / stop / is_running of the two   *)
(*                  worker classes (WorkerSpec).                           *)
(*   XSynth         (src/src/XSynth.cpp) the soundfont handle (SynthSpec). *)
(*                                                                         *)
(* Granularity.  In Spec the realtime callback takes one step per frame of *)
(* the block loop, the consolidator one step per statement of its loop,    *)
(* the UI handlers one step per statement, and send_midi_cc is one step.   *)
(* SeqSpec is Spec under the schedule in which every thread runs to its    *)
(* next wait before another acts; StageSpec is the staging table and the   *)
(* realtime callback alone.  In TableSpec1 / TableSpec2 the table is       *)
(* modelled at the granularity of the single loads and stores of send_cc   *)
(* and of the payload fields, with one and with two producers.             *)
(***************************************************************************)
EXTENDS Integers, Sequences, FiniteSets, TLC

(* ------------------------------ bounds -------------------------------- *)

\* max_midi_cc_cnt: the number of slots of the staging table (the header
\* that sets it is not part of src/; the model scales it down).
MaxMidiCcCnt == 3

\* The capacity that triggers a hand-off (256 in the source), scaled down.
BufCap == 2

\* nframes: frames of one audio block.
NFrames == 2

\* The number of blocks the realtime callback is invoked for.
MaxTime == 2

\* StageSpec: the number of blocks.
MaxStageTime == 3

\* The number of send_midi_cc calls made by the UI (get_note, knobs, ...).
MaxSubmits == 3

\* The number of clicks on the Record / Play toggle buttons.
MaxClicks == 2

\* The same three bounds for SeqSpec, whose schedule leaves room for two
\* recording sessions.
MaxSeqTime == 4
MaxSeqSubmits == 4
MaxSeqClicks == 4

\* The same three bounds for PlaySpec.
MaxPlayTime == 4
MaxPlaySubmits == 2
MaxPlayClicks == 2

\* For CapSpec: notes played during the one recording session, and blocks.
MaxCapSubmits == 5
MaxCapTime == 3

\* For OrderSpec: notes played during the one recording session, and blocks.
MaxOrderSubmits == 6
MaxOrderTime == 3

\* For SendSpec: calls of send_midi_cc, and blocks.
MaxSends == 4
MaxSendBlocks == 1

\* For NotifySpec: events in the input port of one block, and blocks.
MaxInEvents == 2
MaxInBlocks == 2

\* For RoundSpec: clicks on the two toggles, messages sent, and blocks.
MaxRoundClicks == 4
MaxRoundSubmits == 4
MaxRoundTime == 4

\* For SessionSpec: clicks on Record, notes played, and blocks.
MaxSessionClicks == 4
MaxSessionSubmits == 3
MaxSessionTime == 2

\* For ToggleSpec: clicks on the two toggles, and blocks.
MaxToggles == 4
MaxToggleTime == 2

\* For PlaybackSpec: clicks on the two toggles, notes played, and blocks.
MaxPlaybackClicks == 4
MaxPlaybackSubmits == 1
MaxPlaybackTime == 4

\* For EchoSpec: notes played, and blocks.
MaxEchoSubmits == 2
MaxEchoTime == 2

\* For TableSpec1 and TableSpec2: the number of send_midi_cc calls and of
\* blocks.
MaxCalls == 3
MaxBlocks == 2

\* KeysSpec: strokes (presses and releases) on the computer keyboard.
MaxStrokes == 5

\* MatrixSpec: calls of the key matrix functions.
MaxMatrixCalls == 3

\* WorkerSpec: calls of start() and stop() on the two workers together.
MaxWorkerCalls == 4

\* SynthSpec: calls of the member functions of XSynth.
MaxSynthCalls == 4

(* ------------------------------ values -------------------------------- *)

Slots == 0 .. (MaxMidiCcCnt - 1)

\* Arguments (_cc, _pg, _bgn, _num) of send_midi_cc calls made by the
\* program: get_note's note-on, bank_callback's program change, and
\* play_callback's all-notes-off.
NoteOn == <<144, 60, 100, 3>>
ProgramChange == <<192, 5, 0, 2>>
AllNotesOff == <<176, 123, 0, 3>>

Inputs == {NoteOn, ProgramChange}

\* get_note's note-off, line 940, and with it three different messages, of
\* two and of three bytes.
NoteOff == <<128, 60, 100, 3>>
SendInputs == {NoteOn, NoteOff, ProgramChange}

\* Values of the Channel combobox (entries 1 .. 16 are the values 0 .. 15).
Channels == {0, 1}

\* The threads that call send_midi_cc: the UI thread (get_note, the knobs)
\* and the animation thread (animate_midi_keyboard sets the Play toggle,
\* whose play_callback sends all-notes-off).
Producers == {1, 2}

\* Events that arrive at the input port: a note-on and a note-off on the
\* channel of the keyboard, a note-on on another channel, a controller.
InEvents == {<<144, 60, 100>>, <<128, 60, 0>>, <<145, 60, 100>>, <<176, 7, 90>>}

\* The same kind of events with the frame offset they arrive at as fourth
\* component.
TimedInEvents == {<<144, 60, 100, 0>>, <<128, 60, 0, 1>>, <<176, 7, 90, 1>>}

\* What a byte of the port buffer can hold that no one has written in the
\* blocks of the run.
PadBytes == {0, 2}

\* A port buffer returned by jack_midi_event_reserve, nothing written yet.
Unwritten == <<-1, -1, -1>>

VARIABLES
    \* MidiMessenger
    send_cc, cc_num, pg_num, bg_num, me_num, channel,
    \* XJack
    record, play, fresh_take, first_play, start, st, store1, store2, p,
    \* MidiRecord
    rec_st, rec_play, rec_execute, thd, thd_i,
    \* the realtime thread inside jack_process
    rt_pc, rt_i, rt_n, now, port,
    \* the UI thread inside record_callback / play_callback
    ui_pc, ui_ret, stop_ret, record_adj, play_adj,
    \* producers inside send_midi_cc and the consumer inside next / fill,
    \* one load or store at a time (TableSpec1, TableSpec2)
    q_pc, q_arg, q_i, q_ret, c_j, c_len, c_buf, called,
    \* the realtime thread inside process_midi_in and the thread that
    \* std::async starts for trigger_get_midi_in (NotifySpec)
    in_pc, in_buf, in_i, in_blk, task,
    \* history of the run
    submits, clicks, taken, stamps, anchor, notified, owed, handoffs, fills,
    \* record and play as the running invocation of process_midi_out found them
    entry_flags,
    \* MidiKeyboard (xkeyboard.c): the matrix of held computer keys, the
    \* octave offset, what the build makes of a shift by 32 or more, and the
    \* note requests handed to mk_send_note
    key_matrix, octave, shl, keyed, hushed, strokes, m_call,
    \* AnimatedKeyBoard and the thread that calls its start() and stop()
    ani_execute, ani_thd, main_pc, main_ret, w_calls,
    \* XSynth and the calls it has made into the synth library
    sf_id, synth, settings, adriver, mdriver, unloads, load_ret, xs_call

tableVars == <<send_cc, cc_num, pg_num, bg_num, me_num, channel>>
jackVars == <<record, play, fresh_take, first_play, start, st, store1, store2, p>>
recVars == <<rec_st, rec_play, rec_execute, thd, thd_i>>
rtVars == <<rt_pc, rt_i, rt_n, now, port>>
uiVars == <<ui_pc, ui_ret, stop_ret, record_adj, play_adj>>
inVars == <<in_pc, in_buf, in_i, in_blk, task>>
fineVars == <<q_pc, q_arg, q_i, q_ret, c_j, c_len, c_buf, called, inVars>>
histVars == <<submits, clicks, taken, stamps, anchor, notified, owed, handoffs, fills, entry_flags>>
xkbVars == <<key_matrix, octave, shl, keyed, hushed, strokes, m_call>>
aniVars == <<ani_execute, ani_thd, main_pc, main_ret, w_calls>>
synthVars == <<sf_id, synth, settings, adriver, mdriver, unloads, load_ret, xs_call>>
\* the components the MIDI path leaves alone
restVars == <<xkbVars, aniVars, synthVars>>

vars == <<tableVars, jackVars, recVars, rtVars, uiVars, fineVars, histVars, restVars>>


(* --------------------------- MidiMessenger ---------------------------- *)

\* Bitwise OR of two naturals (the |= of send_midi_cc).
RECURSIVE BitOr(_, _)
BitOr(a, b) ==
    IF a = 0 THEN b
    ELSE IF b = 0 THEN a
    ELSE (IF (a % 2 = 1) \/ (b % 2 = 1) THEN 1 ELSE 0)
         + 2 * BitOr(a \div 2, b \div 2)

\* The tuple send_midi_cc stores for the arguments m: _cc |= channel.
WithChannel(m) == <<BitOr(m[1], channel), m[2], m[3], m[4]>>

\* MidiMessenger::size(i): the byte length of the message in slot i.
size(i) == me_num[i]

\* The payload fields of slot i.
SlotTuple(i) == <<cc_num[i], pg_num[i], bg_num[i], me_num[i]>>

\* A different scan, which would yield the last occupied slot after i.
nextFromEnd(i) ==
    IF \E j \in Slots : j > i /\ send_cc[j]
    THEN CHOOSE j \in Slots :
            /\ j > i /\ send_cc[j]
            /\ \A k \in Slots : (k > i /\ send_cc[k]) => j >= k
    ELSE -1

\* MidiMessenger::next(i): the first occupied slot after i, or -1.
next(i) ==
    IF \E j \in Slots : j > i /\ send_cc[j]
    THEN CHOOSE j \in Slots :
            /\ j > i /\ send_cc[j]
            /\ \A k \in Slots : (k > i /\ send_cc[k]) => j <= k
    ELSE -1

\* A different scan, which would start again from slot 0 at every call.
NextInFromStart(b, i) ==
    IF \E j \in Slots : b[j]
    THEN CHOOSE j \in Slots : b[j] /\ \A k \in Slots : b[k] => j <= k
    ELSE -1

\* next(i) evaluated on a table whose busy flags are b.
NextIn(b, i) ==
    IF \E j \in Slots : j > i /\ b[j]
    THEN CHOOSE j \in Slots :
            /\ j > i /\ b[j]
            /\ \A k \in Slots : (k > i /\ b[k]) => j <= k
    ELSE -1

\* MidiMessenger::fill(midi_send, i): the bytes copied into the port
\* buffer; bg_num is copied only for a 3 byte message.
FillBytes(i) ==
    IF size(i) = 3 THEN <<cc_num[i], pg_num[i], bg_num[i]>>
    ELSE <<cc_num[i], pg_num[i]>>

\* A different scan, which would pass over an occupied slot whatever it
\* holds and stop at the first free slot only.
ScanStopAtFree(t) ==
    IF \E i \in Slots : ~send_cc[i]
    THEN CHOOSE i \in Slots : ~send_cc[i] /\ \A k \in Slots : ~send_cc[k] => i <= k
    ELSE -1

\* The slot at which the scan of send_midi_cc stops for the tuple t: the
\* first slot that is occupied by an identical tuple or is free; -1 when
\* the loop runs to the end.
ScanStop(t) ==
    LET stops(i) == (send_cc[i] /\ SlotTuple(i) = t) \/ ~send_cc[i]
    IN IF \E i \in Slots : stops(i)
       THEN CHOOSE i \in Slots : stops(i) /\ \A k \in Slots : stops(k) => i <= k
       ELSE -1

\* The value send_midi_cc(m) returns.
send_midi_cc_ret(m) == ScanStop(WithChannel(m)) # -1

\* MidiMessenger::send_midi_cc(m) as one step of the calling thread.
send_midi_cc(m) ==
    LET t == WithChannel(m)
        k == ScanStop(t)
    IN IF k # -1 /\ ~send_cc[k]
       THEN /\ cc_num' = [cc_num EXCEPT ![k] = t[1]]
            /\ pg_num' = [pg_num EXCEPT ![k] = t[2]]
            /\ bg_num' = [bg_num EXCEPT ![k] = t[3]]
            /\ me_num' = [me_num EXCEPT ![k] = t[4]]
            /\ send_cc' = [send_cc EXCEPT ![k] = TRUE]
       ELSE UNCHANGED <<send_cc, cc_num, pg_num, bg_num, me_num>>

(* ----------------------------- MidiRecord ----------------------------- *)

\* The buffer a store pointer (1: &store1, 2: &store2) points at.
Store(k) == IF k = 1 THEN store1 ELSE store2

\* std::condition_variable::notify_one on rec.cv: wakes the consolidator
\* if it is parked in cv.wait, and is lost otherwise.
NotifyOne(t) == IF t = "waiting" THEN "woken" ELSE t

(* ------------------------------- XJack -------------------------------- *)

\* A recorded event (MidiEvent): <<cc_num, pg_num, bg_num, me_num, deltaTime>>.
MidiEvent(bytes, len, dt) ==
    <<bytes[1], bytes[2], IF len > 2 THEN bytes[3] ELSE 0, len, dt>>

\* The bytes process_midi_out writes for a played event.
PlayBytes(ev) ==
    IF ev[4] > 2 THEN <<ev[1], ev[2], ev[3]>> ELSE <<ev[1], ev[2]>>

\* What rec.play[p] can yield when p is not an index of rec.play (a read
\* past the end of the vector).
OutOfRange == {<<0, 0, 0, 2, 0>>, <<255, 255, 255, 3, 0>>}

\* A different cursor step, which would not wrap at the end of the Take.
NextCursorNoWrap(cur, n) == cur + 1

\* process_midi_out, lines 296-297: p++; if (p >= rec.play.size()) p = 0.
NextCursor(cur, n) == IF cur + 1 >= n THEN 0 ELSE cur + 1

\* process_midi_out, lines 255-263: the roles after a push_back, from the
\* sizes of store1 and store2: <<st, rec.st, notify>>.
SwapAfterPush(len1, len2, cur_st, cur_rec_st) ==
    IF len1 >= BufCap THEN <<2, 1, TRUE>>
    ELSE IF len2 >= BufCap THEN <<1, 2, TRUE>>
    ELSE <<cur_st, cur_rec_st, FALSE>>

\* The frame times the recording of this session goes by: the value of
\* jack_last_frame_time when the frame loop anchored start for the take,
\* line 242 (the last time it did so before an event was pushed), followed
\* by its value in the block of each event that was pushed, line 250.  A
\* frame ran lines 241-244; it pushed an event or did not.
Stamped(pushed) ==
    LET s == IF record # 0 /\ fresh_take /\ Len(stamps) <= 1
             THEN <<now>> ELSE stamps
    IN IF pushed THEN Append(s, now) ELSE s

\* jack_process is entered for the next block: jack_last_frame_time
\* advances, the port buffer is fresh, and process_midi_out starts its scan
\* with i = mmessage->next().
BlockStart ==
    /\ rt_pc = "idle"
    /\ now' = now + 1
    /\ rt_i' = next(-1)
    /\ rt_n' = 0
    /\ port' = <<>>
    /\ rt_pc' = "frame"
    /\ entry_flags' = <<record, play>>
    /\ notified' = IF in_pc = "done" THEN notified ELSE <<>>
    /\ UNCHANGED <<tableVars, restVars, jackVars, recVars, uiVars, fineVars>>
    /\ UNCHANGED <<submits, clicks, taken, stamps, anchor, owed, handoffs, fills>>

\* entry_flags after the frame n of the loop of line 240: the flags the
\* invocation began with, until the loop ends.
AtFrameEnd(n) == IF n + 1 = NFrames THEN <<0, 0>> ELSE entry_flags

\* One iteration of the frame loop of process_midi_out in which a staged
\* message is handled (i >= 0), lines 241-267.
FrameStaged(reserved) ==
    /\ rt_pc = "frame"
    /\ rt_i >= 0
    /\ LET start1 == IF record # 0 /\ fresh_take THEN now ELSE start
           bytes == FillBytes(rt_i)
           len == size(rt_i)
           ev == MidiEvent(bytes, len, now - start1)
           busy1 == IF reserved THEN [send_cc EXCEPT ![rt_i] = FALSE] ELSE send_cc
           rec == reserved /\ record # 0
           s1 == IF rec /\ st = 1 THEN Append(store1, ev) ELSE store1
           s2 == IF rec /\ st = 2 THEN Append(store2, ev) ELSE store2
           swap == IF rec THEN SwapAfterPush(Len(s1), Len(s2), st, rec_st)
                   ELSE <<st, rec_st, FALSE>>
       IN  /\ fresh_take' = IF record # 0 THEN FALSE ELSE fresh_take
           /\ send_cc' = busy1
           /\ port' = IF reserved THEN Append(port, <<rt_n, bytes>>) ELSE port
           /\ owed' = IF reserved THEN owed \ {SlotTuple(rt_i)} ELSE owed
           /\ store1' = s1
           /\ store2' = s2
           /\ st' = swap[1]
           /\ rec_st' = swap[2]
           /\ thd' = IF swap[3] THEN NotifyOne(thd) ELSE thd
           /\ start' = IF rec THEN now ELSE start1
           /\ taken' = IF rec THEN Append(taken, ev) ELSE taken
           /\ stamps' = Stamped(rec)
           /\ handoffs' =
                IF swap[3]
                THEN Append(handoffs,
                       [by |-> "rt", buf |-> swap[2],
                        len |-> Len(IF swap[2] = 1 THEN s1 ELSE s2),
                        swapped |-> (swap[1] # st)])
                ELSE handoffs
           /\ fills' = IF rec /\ Len(IF st = 1 THEN s1 ELSE s2) = BufCap
                       THEN fills + 1 ELSE fills
           /\ rt_i' = NextIn(busy1, rt_i)
    /\ rt_n' = rt_n + 1
    /\ rt_pc' = IF rt_n + 1 = NFrames THEN "idle" ELSE "frame"
    /\ UNCHANGED <<cc_num, pg_num, bg_num, me_num, channel, restVars>>
    /\ UNCHANGED <<record, play, first_play, p>>
    /\ UNCHANGED <<rec_play, rec_execute, thd_i, now>>
    /\ entry_flags' = AtFrameEnd(rt_n)
    /\ UNCHANGED <<uiVars, fineVars, submits, clicks, anchor, notified>>

\* A different filter, which would not look at the channel of the event.
NotifiesAnyChannel(e) == e[1] \div 16 \in {9, 8}

\* process_midi_in, lines 312-319, and process_midi_out, lines 285-292: the
\* event is a note-on or a note-off on the channel of the keyboard.
Notifies(e) ==
    /\ channel = e[1] % 16
    /\ e[1] \div 16 \in {9, 8}

\* The arguments of trigger_get_midi_in for the event e, lines 290-292 and
\* 317-319: the second byte, and whether the event is a note-on.
Notification(e) == <<e[2], e[1] \div 16 = 9>>

\* The notifications issued in this invocation of jack_process after the
\* playback branch has written the event ev, lines 285-293: std::async
\* starts trigger_get_midi_in for a note of the keyboard's channel.
Notified(ev) ==
    IF Notifies(ev) THEN Append(notified, Notification(ev)) ELSE notified

\* The frame time this pass of playback is measured from, as a frame of the
\* playback branch finds it: the frame time of the last event playback
\* wrote, or of this frame if it is the first of the playback branch since
\* Play was switched on.
Anchored == IF anchor = -1 THEN now ELSE anchor

\* One iteration of the frame loop with no staged message (i < 0): the
\* playback branch if play is set and rec.play is not empty, lines 241-244
\* and 268-299.
FrameIdle(reserved) ==
    /\ rt_pc = "frame"
    /\ rt_i < 0
    /\ LET start1 == IF record # 0 /\ fresh_take THEN now ELSE start
           playing == play # 0 /\ Len(rec_play) > 0
           start2 == IF playing /\ first_play THEN now ELSE start1
           p2 == IF playing /\ first_play THEN 0 ELSE p
       IN /\ fresh_take' = IF record # 0 THEN FALSE ELSE fresh_take
          /\ first_play' = IF playing THEN FALSE ELSE first_play
          /\ IF playing
             THEN \E ev \in (IF p2 < Len(rec_play) THEN {rec_play[p2 + 1]}
                             ELSE OutOfRange) :
                    IF now - start2 >= ev[5]
                    THEN /\ port' = IF reserved
                                    THEN Append(port, <<rt_n, PlayBytes(ev)>>)
                                    ELSE port
                         /\ start' = now
                         /\ p' = NextCursor(p2, Len(rec_play))
                         /\ anchor' = IF reserved THEN now ELSE Anchored
                         /\ notified' = IF reserved THEN Notified(ev) ELSE notified
                    ELSE /\ reserved
                         /\ start' = start2
                         /\ p' = p2
                         /\ port' = port
                         /\ anchor' = Anchored
                         /\ notified' = notified
             ELSE /\ reserved
                  /\ start' = start1
                  /\ p' = p
                  /\ port' = port
                  /\ anchor' = anchor
                  /\ notified' = notified
    /\ rt_n' = rt_n + 1
    /\ rt_pc' = IF rt_n + 1 = NFrames THEN "idle" ELSE "frame"
    /\ UNCHANGED <<tableVars, restVars, record, play, st, store1, store2>>
    /\ entry_flags' = AtFrameEnd(rt_n)
    /\ UNCHANGED <<recVars, rt_i, now, uiVars, fineVars>>
    /\ stamps' = Stamped(FALSE)
    /\ UNCHANGED <<submits, clicks, taken, owed, handoffs, fills>>

\* The same iteration in two steps of the realtime thread.  First, lines
\* 241-245 and 268: the test of record, i < 0, and the test
\* play && rec.play.size(); the iteration ends here if the test fails.
FrameIdleTest ==
    /\ rt_pc = "frame"
    /\ rt_i < 0
    /\ fresh_take' = IF record # 0 THEN FALSE ELSE fresh_take
    /\ start' = IF record # 0 /\ fresh_take THEN now ELSE start
    /\ stamps' = Stamped(FALSE)
    /\ IF play # 0 /\ Len(rec_play) > 0
       THEN /\ rt_pc' = "play_270"
            /\ UNCHANGED <<rt_n, entry_flags>>
       ELSE /\ rt_n' = rt_n + 1
            /\ rt_pc' = IF rt_n + 1 = NFrames THEN "idle" ELSE "frame"
            /\ entry_flags' = AtFrameEnd(rt_n)
    /\ UNCHANGED <<tableVars, restVars, record, play, first_play, st, store1, store2, p>>
    /\ UNCHANGED <<recVars, rt_i, now, port, uiVars, fineVars>>
    /\ UNCHANGED <<submits, clicks, taken, anchor, notified, owed, handoffs, fills>>

\* Then lines 269-298, the body of the playback branch, with first_play, p
\* and rec.play as they are when the thread gets there; every reservation
\* succeeds.
FrameIdlePlay ==
    /\ rt_pc = "play_270"
    /\ LET start2 == IF first_play THEN now ELSE start
           p2 == IF first_play THEN 0 ELSE p
       IN /\ first_play' = FALSE
          /\ \E ev \in (IF p2 < Len(rec_play) THEN {rec_play[p2 + 1]}
                          ELSE OutOfRange) :
                IF now - start2 >= ev[5]
                THEN /\ port' = Append(port, <<rt_n, PlayBytes(ev)>>)
                     /\ start' = now
                     /\ p' = NextCursor(p2, Len(rec_play))
                     /\ anchor' = now
                     /\ notified' = Notified(ev)
                ELSE /\ start' = start2
                     /\ p' = p2
                     /\ port' = port
                     /\ anchor' = Anchored
                     /\ notified' = notified
    /\ rt_n' = rt_n + 1
    /\ rt_pc' = IF rt_n + 1 = NFrames THEN "idle" ELSE "frame"
    /\ entry_flags' = AtFrameEnd(rt_n)
    /\ UNCHANGED <<tableVars, restVars, record, play, fresh_take, st, store1, store2>>
    /\ UNCHANGED <<recVars, rt_i, now, uiVars, fineVars>>
    /\ UNCHANGED <<submits, clicks, taken, stamps, owed, handoffs, fills>>

(* ---------------------- the consolidator thread ----------------------- *)

\* while (_execute.load(...)), line 157.
ConsCheck ==
    /\ thd = "check"
    /\ thd' = IF rec_execute THEN "lock" ELSE "exited"
    /\ UNCHANGED <<tableVars, restVars, jackVars, rec_st, rec_play, rec_execute, thd_i>>
    /\ UNCHANGED <<rtVars, uiVars, fineVars, histVars>>

\* unique_lock lk(m); cv.wait(lk): the thread parks, lines 158-159.
ConsWait ==
    /\ thd = "lock"
    /\ thd' = "waiting"
    /\ UNCHANGED <<tableVars, restVars, jackVars, rec_st, rec_play, rec_execute, thd_i>>
    /\ UNCHANGED <<rtVars, uiVars, fineVars, histVars>>

\* cv.wait(lk) has no predicate: a spurious wakeup returns from it.
ConsSpurious ==
    /\ thd = "waiting"
    /\ thd' = "woken"
    /\ UNCHANGED <<tableVars, restVars, jackVars, rec_st, rec_play, rec_execute, thd_i>>
    /\ UNCHANGED <<rtVars, uiVars, fineVars, histVars>>

\* cv.wait returns; play.reserve(...); the for loop starts, lines 160-162.
ConsWake ==
    /\ thd = "woken"
    /\ thd' = "loop"
    /\ thd_i' = 0
    /\ UNCHANGED <<tableVars, restVars, jackVars, rec_st, rec_play, rec_execute>>
    /\ UNCHANGED <<rtVars, uiVars, fineVars, histVars>>

\* One evaluation of i < st->size() and, if it holds, one
\* play.push_back((*st)[i]); i++, lines 162-163.
ConsLoop ==
    /\ thd = "loop"
    /\ IF thd_i < Len(Store(rec_st))
       THEN /\ rec_play' = Append(rec_play, Store(rec_st)[thd_i + 1])
            /\ thd_i' = thd_i + 1
            /\ thd' = thd
       ELSE /\ thd' = "clear"
            /\ UNCHANGED <<rec_play, thd_i>>
    /\ UNCHANGED <<tableVars, restVars, jackVars, rec_st, rec_execute>>
    /\ UNCHANGED <<rtVars, uiVars, fineVars, histVars>>

\* st->clear(), line 164; the lock is released and the loop repeats.
ConsClear ==
    /\ thd = "clear"
    /\ store1' = IF rec_st = 1 THEN <<>> ELSE store1
    /\ store2' = IF rec_st = 2 THEN <<>> ELSE store2
    /\ thd' = "check"
    /\ UNCHANGED <<tableVars, restVars, record, play, fresh_take, first_play, start, st, p>>
    /\ UNCHANGED <<rec_st, rec_play, rec_execute, thd_i>>
    /\ UNCHANGED <<rtVars, uiVars, fineVars, histVars>>

(* --------------------------- the UI thread ---------------------------- *)

\* record_callback, lines 1102-1106: the buffer rec.st is pointed at before
\* the consolidator is stopped, from rec.st and store2.size().
StopTarget(cur_rec_st, len2) ==
    IF cur_rec_st = 1 /\ len2 > 0 THEN 2 ELSE 1

\* A UI callback (get_note, a knob, ...) calls send_midi_cc.
Submit ==
    /\ ui_pc = "idle"
    /\ \E m \in Inputs :
        /\ send_midi_cc(m)
        /\ owed' = owed \cup {WithChannel(m)}
    /\ submits' = submits + 1
    /\ UNCHANGED <<channel, restVars, jackVars, recVars, rtVars, uiVars, fineVars>>
    /\ UNCHANGED <<clicks, taken, stamps, anchor, notified, handoffs, fills, entry_flags>>

\* A UI callback calls send_midi_cc with the arguments m.
Send(m) ==
    /\ ui_pc = "idle"
    /\ send_midi_cc(m)
    /\ owed' = owed \cup {WithChannel(m)}
    /\ submits' = submits + 1
    /\ UNCHANGED <<channel, restVars, jackVars, recVars, rtVars, uiVars, fineVars>>
    /\ UNCHANGED <<clicks, taken, stamps, anchor, notified, handoffs, fills, entry_flags>>

\* channel_callback, line 956: mmessage->channel = the combobox value.
ChannelCallback(c) ==
    /\ ui_pc = "idle"
    /\ channel' = c
    /\ UNCHANGED <<send_cc, cc_num, pg_num, bg_num, me_num, restVars>>
    /\ UNCHANGED <<jackVars, recVars, rtVars, uiVars, fineVars, histVars>>

\* get_note, line 938: a key of the keyboard is pressed and its note-on is
\* submitted; the user plays the keys 60, 61, ... one after the other.
PlayNote ==
    /\ ui_pc = "idle"
    /\ send_midi_cc(<<144, 60 + submits, 100, 3>>)
    /\ submits' = submits + 1
    /\ UNCHANGED <<channel, restVars, jackVars, recVars, rtVars, uiVars, fineVars>>
    /\ UNCHANGED <<clicks, taken, stamps, anchor, notified, owed, handoffs, fills, entry_flags>>

\* The Record toggle changes value (a click, or Ctrl+R): its
\* value_changed_callback, record_callback, is entered.
ClickRecord ==
    /\ ui_pc = "idle"
    /\ clicks' = clicks + 1
    /\ record_adj' = 1 - record_adj
    /\ ui_pc' = "rc_1092"
    /\ UNCHANGED <<tableVars, restVars, jackVars, recVars, rtVars, fineVars>>
    /\ UNCHANGED <<ui_ret, stop_ret, play_adj, submits, taken, stamps, anchor, notified, owed, handoffs, fills>>
    /\ UNCHANGED entry_flags

\* The Play toggle changes value (a click, or Ctrl+P): play_callback is
\* entered.
ClickPlay ==
    /\ ui_pc = "idle"
    /\ clicks' = clicks + 1
    /\ play_adj' = 1 - play_adj
    /\ ui_pc' = "pc_1117"
    /\ ui_ret' = "idle"
    /\ UNCHANGED <<tableVars, restVars, jackVars, recVars, rtVars, fineVars>>
    /\ UNCHANGED <<stop_ret, record_adj, submits, taken, stamps, anchor, notified, owed, handoffs, fills>>
    /\ UNCHANGED entry_flags

\* record_callback, line 1092: xjack->record = value.
RC1092 ==
    /\ ui_pc = "rc_1092"
    /\ record' = record_adj
    /\ ui_pc' = IF record_adj > 0 THEN "rc_1094" ELSE "rc_1101"
    /\ taken' = IF record_adj > 0 THEN <<>> ELSE taken
    /\ stamps' = IF record_adj > 0 THEN <<>> ELSE stamps
    /\ handoffs' = IF record_adj > 0 THEN <<>> ELSE handoffs
    /\ fills' = IF record_adj > 0 THEN 0 ELSE fills
    /\ UNCHANGED <<tableVars, restVars, play, fresh_take, first_play, start, st, store1, store2, p>>
    /\ UNCHANGED <<recVars, rtVars, fineVars>>
    /\ UNCHANGED <<ui_ret, stop_ret, record_adj, play_adj>>
    /\ UNCHANGED <<submits, clicks, owed, anchor, notified, entry_flags>>

\* A different record_callback, which would keep the Take of the session
\* before.
RC1097KeepsTake ==
    /\ ui_pc = "rc_1097"
    /\ ui_pc' = "rc_1098"
    /\ UNCHANGED <<tableVars, restVars, jackVars, recVars, rtVars, fineVars>>
    /\ UNCHANGED <<ui_ret, stop_ret, record_adj, play_adj, histVars>>

\* A different record_callback, which would leave the Play toggle as it is.
RC1094KeepsPlay ==
    /\ ui_pc = "rc_1094"
    /\ ui_pc' = "rc_1095"
    /\ UNCHANGED <<tableVars, restVars, jackVars, recVars, rtVars, fineVars>>
    /\ UNCHANGED <<ui_ret, stop_ret, record_adj, play_adj, histVars>>

\* record_callback, line 1094: adj_set_value(play->adj, 0.0) runs
\* play_callback when it changes the value of the Play toggle.
RC1094 ==
    /\ ui_pc = "rc_1094"
    /\ IF play_adj # 0
       THEN /\ play_adj' = 0
            /\ ui_pc' = "pc_1117"
            /\ ui_ret' = "rc_1095"
       ELSE /\ ui_pc' = "rc_1095"
            /\ UNCHANGED <<play_adj, ui_ret>>
    /\ UNCHANGED <<tableVars, restVars, jackVars, recVars, rtVars, fineVars>>
    /\ UNCHANGED <<stop_ret, record_adj, histVars>>

\* record_callback, line 1095: store1.clear().
RC1095 ==
    /\ ui_pc = "rc_1095"
    /\ store1' = <<>>
    /\ ui_pc' = "rc_1096"
    /\ UNCHANGED <<tableVars, restVars, record, play, fresh_take, first_play, start, st, store2, p>>
    /\ UNCHANGED <<recVars, rtVars, fineVars>>
    /\ UNCHANGED <<ui_ret, stop_ret, record_adj, play_adj, histVars>>

\* record_callback, line 1096: store2.clear().
RC1096 ==
    /\ ui_pc = "rc_1096"
    /\ store2' = <<>>
    /\ ui_pc' = "rc_1097"
    /\ UNCHANGED <<tableVars, restVars, record, play, fresh_take, first_play, start, st, store1, p>>
    /\ UNCHANGED <<recVars, rtVars, fineVars>>
    /\ UNCHANGED <<ui_ret, stop_ret, record_adj, play_adj, histVars>>

\* record_callback, line 1097: rec.play.clear().
RC1097 ==
    /\ ui_pc = "rc_1097"
    /\ rec_play' = <<>>
    /\ ui_pc' = "rc_1098"
    /\ UNCHANGED <<tableVars, restVars, jackVars, rec_st, rec_execute, thd, thd_i>>
    /\ UNCHANGED <<rtVars, fineVars>>
    /\ UNCHANGED <<ui_ret, stop_ret, record_adj, play_adj, histVars>>

\* record_callback, lines 1098-1099: fresh_take = true; first_play = true.
RC1098 ==
    /\ ui_pc = "rc_1098"
    /\ fresh_take' = TRUE
    /\ first_play' = TRUE
    /\ ui_pc' = "rc_1100"
    /\ UNCHANGED <<tableVars, restVars, record, play, start, st, store1, store2, p>>
    /\ UNCHANGED <<recVars, rtVars, fineVars>>
    /\ UNCHANGED <<ui_ret, stop_ret, record_adj, play_adj, histVars>>

\* record_callback, line 1100: rec.start(), lines 151-156.  A worker that
\* is still marked running is stopped first (stop_ret brings the thread
\* back here); then _execute is set and the thread is created.
RecStart ==
    /\ ui_pc \in {"rc_1100", "start_155"}
    /\ IF ui_pc = "rc_1100" /\ rec_execute
       THEN /\ ui_pc' = "stop_144"
            /\ stop_ret' = "start_155"
            /\ UNCHANGED <<rec_execute, thd>>
       ELSE /\ rec_execute' = TRUE
            /\ thd' = "check"
            /\ ui_pc' = "idle"
            /\ UNCHANGED stop_ret
    /\ UNCHANGED <<tableVars, restVars, jackVars, rec_st, rec_play, thd_i>>
    /\ UNCHANGED <<rtVars, fineVars>>
    /\ UNCHANGED <<ui_ret, record_adj, play_adj, histVars>>

\* record_callback, lines 1101-1106: if the consolidator is running
\* (is_running, lines 169-172), rec.st is pointed at the buffer to drain.
RC1101 ==
    /\ ui_pc = "rc_1101"
    /\ IF rec_execute /\ thd # "none"
       THEN /\ rec_st' = StopTarget(rec_st, Len(store2))
            /\ ui_pc' = "stop_144"
            /\ stop_ret' = "idle"
       ELSE /\ ui_pc' = "idle"
            /\ UNCHANGED <<rec_st, stop_ret>>
    /\ UNCHANGED <<tableVars, restVars, jackVars, rec_play, rec_execute, thd, thd_i>>
    /\ UNCHANGED <<rtVars, fineVars>>
    /\ UNCHANGED <<ui_ret, record_adj, play_adj, histVars>>

\* MidiRecord::stop, line 144: _execute.store(false).
Stop144 ==
    /\ ui_pc = "stop_144"
    /\ rec_execute' = FALSE
    /\ ui_pc' = "stop_145"
    /\ UNCHANGED <<tableVars, restVars, jackVars, rec_st, rec_play, thd, thd_i>>
    /\ UNCHANGED <<rtVars, fineVars>>
    /\ UNCHANGED <<ui_ret, stop_ret, record_adj, play_adj, histVars>>

\* MidiRecord::stop, lines 145-146: if (_thd.joinable()) cv.notify_one().
Stop145 ==
    /\ ui_pc = "stop_145"
    /\ IF thd # "none"
       THEN /\ thd' = NotifyOne(thd)
            /\ ui_pc' = "stop_147"
            /\ handoffs' = Append(handoffs,
                  [by |-> "stop", buf |-> rec_st,
                   len |-> Len(Store(rec_st)), swapped |-> FALSE])
       ELSE /\ ui_pc' = stop_ret
            /\ UNCHANGED <<thd, handoffs>>
    /\ UNCHANGED <<tableVars, restVars, jackVars, rec_st, rec_play, rec_execute, thd_i>>
    /\ UNCHANGED <<rtVars, fineVars>>
    /\ UNCHANGED <<ui_ret, stop_ret, record_adj, play_adj>>
    /\ UNCHANGED <<submits, clicks, taken, stamps, anchor, notified, owed, fills, entry_flags>>

\* MidiRecord::stop, line 147: _thd.join() returns once the thread has
\* left its lambda.
Stop147 ==
    /\ ui_pc = "stop_147"
    /\ thd = "exited"
    /\ thd' = "none"
    /\ ui_pc' = stop_ret
    /\ UNCHANGED <<tableVars, restVars, jackVars, rec_st, rec_play, rec_execute, thd_i>>
    /\ UNCHANGED <<rtVars, fineVars>>
    /\ UNCHANGED <<ui_ret, stop_ret, record_adj, play_adj, histVars>>

\* play_callback, line 1117: xjack->play = value.
PC1117 ==
    /\ ui_pc = "pc_1117"
    /\ play' = play_adj
    /\ ui_pc' = IF play_adj < 1 THEN "pc_1121" ELSE "pc_1124"
    /\ anchor' = IF play_adj < 1 THEN anchor ELSE -1
    /\ UNCHANGED <<tableVars, restVars, record, fresh_take, first_play, start, st, store1, store2, p>>
    /\ UNCHANGED <<recVars, rtVars, fineVars>>
    /\ UNCHANGED <<ui_ret, stop_ret, record_adj, play_adj>>
    /\ UNCHANGED <<submits, clicks, taken, stamps, notified, owed, handoffs, fills, entry_flags>>

\* play_callback, line 1121: send_midi_cc(0xB0, 123, 0, 3).
PC1121 ==
    /\ ui_pc = "pc_1121"
    /\ send_midi_cc(AllNotesOff)
    /\ ui_pc' = "pc_1122"
    /\ UNCHANGED <<channel, restVars, jackVars, recVars, rtVars, fineVars>>
    /\ UNCHANGED <<ui_ret, stop_ret, record_adj, play_adj, histVars>>

\* play_callback, line 1122: first_play = true; the handler returns.
PC1122 ==
    /\ ui_pc = "pc_1122"
    /\ first_play' = TRUE
    /\ ui_pc' = ui_ret
    /\ UNCHANGED <<tableVars, restVars, record, play, fresh_take, start, st, store1, store2, p>>
    /\ UNCHANGED <<recVars, rtVars, fineVars>>
    /\ UNCHANGED <<ui_ret, stop_ret, record_adj, play_adj, histVars>>

\* play_callback, line 1124: adj_set_value(record->adj, 0.0) runs
\* record_callback when it changes the value of the Record toggle.
PC1124 ==
    /\ ui_pc = "pc_1124"
    /\ IF record_adj # 0
       THEN /\ record_adj' = 0
            /\ ui_pc' = "rc_1092"
       ELSE /\ ui_pc' = "idle"
            /\ UNCHANGED record_adj
    /\ UNCHANGED <<tableVars, restVars, jackVars, recVars, rtVars, fineVars>>
    /\ UNCHANGED <<ui_ret, stop_ret, play_adj, histVars>>

(* --------------------- MidiKeyboard (xkeyboard.c) --------------------- *)

\* What a build makes of 1 << n for an int 1 and n >= 32, which the
\* language leaves undefined: the shift instruction keeps the low five bits
\* of the count (x86, AArch64), or shifts the bit out (32-bit ARM).
ShiftOutcomes == {"masked", "zero"}

\* The bits 0..63 of an unsigned long that the int (1 << i) sets once it is
\* converted for |= or &: bit i, and for i = 31 the sign bit and its
\* extension.
Bit(i) == IF i = 31 THEN 31 .. 63 ELSE {i}

\* (1 << key) for the shift counts the matrix functions reach.
Mask(key) ==
    IF key < 32 THEN Bit(key)
    ELSE IF shl = "masked" THEN Bit(key % 32)
    ELSE {}

\* The word of the matrix a key falls into, lines 166-175 and 187-196.
WordOf(key) ==
    IF key > 94 THEN 3 ELSE IF key > 62 THEN 2 ELSE IF key > 31 THEN 1 ELSE 0

\* The shift count left after key -= 94, 62 or 31.
ShiftOf(key) ==
    IF key > 94 THEN key - 94
    ELSE IF key > 62 THEN key - 62
    ELSE IF key > 31 THEN key - 31
    ELSE key

\* set_key_in_matrix: |= (1 << key) or &= ~(1 << key) on the key's word.
set_key_in_matrix(m, key, set) ==
    [m EXCEPT ![WordOf(key)] = IF set THEN @ \cup Mask(ShiftOf(key))
                               ELSE @ \ Mask(ShiftOf(key))]

\* is_key_in_matrix reading key_matrix[0] whatever the key.
is_key_in_matrixFirstWord(m, key) == (m[0] \cap Mask(ShiftOf(key))) # {}

\* is_key_in_matrix: (*use_matrix) & (1 << key).
is_key_in_matrix(m, key) == (m[WordOf(key)] \cap Mask(ShiftOf(key))) # {}

\* have_key_in_matrix: some word has one of the bits (1 << i), i < 32.
have_key_in_matrix(m) ==
    \E j \in 0 .. 3, i \in 0 .. 31 : (m[j] \cap Bit(i)) # {}

\* clear_key_matrix: &= ~(1 << i) for every i < 32 on every word.
clear_key_matrix(m) ==
    [j \in 0 .. 3 |-> m[j] \ UNION {Bit(i) : i \in 0 .. 31}]

\* The keys of the computer keyboard the user strikes, and get_outkey for
\* the layout the keyboard starts with (0: keysym_qwertz_to_midi_key).
KeySyms == {"y", "t", "plus", "space"}
get_outkey(sym) ==
    IF sym = "y" THEN 12
    ELSE IF sym = "t" THEN 31
    ELSE IF sym = "plus" THEN 42
    ELSE 0

\* key_press: with Control held the event goes to the parent; otherwise a
\* key that is not marked is marked and, if it is a MIDI note, its note-on
\* is handed to mk_send_note (get_note: send_midi_cc(0x90, key, velocity,
\* 3), with the velocity slider at 100 as in PlayNote); the space
\* bar clears the matrix and calls mk_send_all_sound_off
\* (get_all_notes_off: send_midi_cc(0xB0, 123, 0, 3)).
key_press(ctl, sym) ==
    LET outkey == get_outkey(sym)
        k == outkey + octave
        marks == ~ctl /\ outkey # 0 /\ ~is_key_in_matrix(key_matrix, k)
        m1 == IF marks THEN set_key_in_matrix(key_matrix, k, TRUE)
              ELSE key_matrix
        sends == marks /\ k >= 0 /\ k < 128
        space == ~ctl /\ sym = "space"
        keyed1 == IF sends THEN Append(keyed, <<k, TRUE>>) ELSE keyed
    IN /\ ui_pc = "idle"
       /\ key_matrix' = IF space THEN clear_key_matrix(m1) ELSE m1
       /\ keyed' = keyed1
       /\ hushed' = IF space THEN Len(keyed1) ELSE hushed
       /\ strokes' = strokes + 1
       /\ IF sends THEN send_midi_cc(<<144, k, 100, 3>>)
          ELSE IF space THEN send_midi_cc(AllNotesOff)
          ELSE UNCHANGED <<send_cc, cc_num, pg_num, bg_num, me_num>>
       /\ UNCHANGED <<channel, octave, shl, m_call, aniVars, synthVars>>
       /\ UNCHANGED <<jackVars, recVars, rtVars, uiVars, fineVars, histVars>>

\* key_release: a key that is marked is unmarked and, if it is a MIDI
\* note, its note-off is handed to mk_send_note (send_midi_cc(0x80, ...)).
key_release(sym) ==
    LET outkey == get_outkey(sym)
        k == outkey + octave
        unmarks == outkey # 0 /\ is_key_in_matrix(key_matrix, k)
        sends == unmarks /\ k >= 0 /\ k < 128
    IN /\ ui_pc = "idle"
       /\ key_matrix' = IF unmarks THEN set_key_in_matrix(key_matrix, k, FALSE)
                        ELSE key_matrix
       /\ keyed' = IF sends THEN Append(keyed, <<k, FALSE>>) ELSE keyed
       /\ strokes' = strokes + 1
       /\ IF sends THEN send_midi_cc(<<128, k, 100, 3>>)
          ELSE UNCHANGED <<send_cc, cc_num, pg_num, bg_num, me_num>>
       /\ UNCHANGED <<channel, octave, shl, hushed, m_call, aniVars, synthVars>>
       /\ UNCHANGED <<jackVars, recVars, rtVars, uiVars, fineVars, histVars>>

\* octave_callback, line 1143: keys->octave = 12 * the slider's value, which
\* set_adjustment (line 764) keeps in 0..4.
octave_callback(v) ==
    /\ ui_pc = "idle"
    /\ octave' = 12 * v
    /\ UNCHANGED <<key_matrix, shl, keyed, hushed, strokes, m_call>>
    /\ UNCHANGED <<aniVars, synthVars>>
    /\ UNCHANGED <<tableVars, jackVars, recVars, rtVars, uiVars, fineVars, histVars>>

\* One call of a matrix function on key_matrix, noted in m_call with its
\* number, its name and its arguments.
MatrixSet(key, set) ==
    /\ key_matrix' = set_key_in_matrix(key_matrix, key, set)
    /\ m_call' = <<m_call[1] + 1, "set", key, set>>
    /\ UNCHANGED <<octave, shl, keyed, hushed, strokes, aniVars, synthVars>>
    /\ UNCHANGED <<tableVars, jackVars, recVars, rtVars, uiVars, fineVars, histVars>>

MatrixClear ==
    /\ key_matrix' = clear_key_matrix(key_matrix)
    /\ m_call' = <<m_call[1] + 1, "clear", 0, FALSE>>
    /\ UNCHANGED <<octave, shl, keyed, hushed, strokes, aniVars, synthVars>>
    /\ UNCHANGED <<tableVars, jackVars, recVars, rtVars, uiVars, fineVars, histVars>>

(* -------------------- the workers, called by anyone -------------------- *)

\* Frames of the actions below.
AniFrame ==
    /\ UNCHANGED <<xkbVars, synthVars>>
    /\ UNCHANGED <<tableVars, jackVars, recVars, rtVars, uiVars, fineVars, histVars>>

\* A caller enters AnimatedKeyBoard::start (init_ui, line 864).
AniCallStart ==
    /\ main_pc = "idle"
    /\ main_pc' = "start_55"
    /\ w_calls' = w_calls + 1
    /\ UNCHANGED <<ani_execute, ani_thd, main_ret>>
    /\ AniFrame

\* A caller enters AnimatedKeyBoard::stop (main, line 1319).
AniCallStop ==
    /\ main_pc = "idle"
    /\ main_pc' = "stop_48"
    /\ main_ret' = "idle"
    /\ w_calls' = w_calls + 1
    /\ UNCHANGED <<ani_execute, ani_thd>>
    /\ AniFrame

\* AnimatedKeyBoard::start without the stop of line 56.
AniStartNoStop ==
    /\ main_pc \in {"start_55", "start_58"}
    /\ ani_execute' = TRUE
    /\ ani_thd' = "check"
    /\ main_pc' = "idle"
    /\ UNCHANGED <<main_ret, w_calls>>
    /\ AniFrame

\* AnimatedKeyBoard::start, lines 55-59: a worker that is still marked
\* running is stopped first (main_ret brings the caller back here); then
\* _execute is set and the thread is created.
AniStart ==
    /\ main_pc \in {"start_55", "start_58"}
    /\ IF main_pc = "start_55" /\ ani_execute
       THEN /\ main_pc' = "stop_48"
            /\ main_ret' = "start_58"
            /\ UNCHANGED <<ani_execute, ani_thd>>
       ELSE /\ ani_execute' = TRUE
            /\ ani_thd' = "check"
            /\ main_pc' = "idle"
            /\ UNCHANGED main_ret
    /\ UNCHANGED w_calls
    /\ AniFrame

\* AnimatedKeyBoard::stop, line 48: _execute.store(false).
AniStop48 ==
    /\ main_pc = "stop_48"
    /\ ani_execute' = FALSE
    /\ main_pc' = "stop_49"
    /\ UNCHANGED <<ani_thd, main_ret, w_calls>>
    /\ AniFrame

\* AnimatedKeyBoard::stop, line 49: if (_thd.joinable()).
AniStop49 ==
    /\ main_pc = "stop_49"
    /\ main_pc' = IF ani_thd # "none" THEN "stop_50" ELSE main_ret
    /\ UNCHANGED <<ani_execute, ani_thd, main_ret, w_calls>>
    /\ AniFrame

\* AnimatedKeyBoard::stop, line 50: _thd.join() returns once the thread
\* has left its lambda.
AniStop50 ==
    /\ main_pc = "stop_50"
    /\ ani_thd = "exited"
    /\ ani_thd' = "none"
    /\ main_pc' = main_ret
    /\ UNCHANGED <<ani_execute, main_ret, w_calls>>
    /\ AniFrame

\* The animation thread: while (_execute.load(...)), line 60.
AniCheck ==
    /\ ani_thd = "check"
    /\ ani_thd' = IF ani_execute THEN "func" ELSE "exited"
    /\ UNCHANGED <<ani_execute, main_pc, main_ret, w_calls>>
    /\ AniFrame

\* func(), line 61: the animation function runs.
AniFunc ==
    /\ ani_thd = "func"
    /\ ani_thd' = "sleep"
    /\ UNCHANGED <<ani_execute, main_pc, main_ret, w_calls>>
    /\ AniFrame

\* std::this_thread::sleep_for(interval), lines 62-63, is over.
AniSleep ==
    /\ ani_thd = "sleep"
    /\ ani_thd' = "check"
    /\ UNCHANGED <<ani_execute, main_pc, main_ret, w_calls>>
    /\ AniFrame

AnimatedKeyBoard ==
    \/ AniStart \/ AniStop48 \/ AniStop49 \/ AniStop50
    \/ AniCheck \/ AniFunc \/ AniSleep

\* A caller enters MidiRecord::start, as record_callback does at line 1100.
RecCallStart ==
    /\ ui_pc = "idle"
    /\ ui_pc' = "rc_1100"
    /\ w_calls' = w_calls + 1
    /\ UNCHANGED <<ani_execute, ani_thd, main_pc, main_ret, xkbVars, synthVars>>
    /\ UNCHANGED <<tableVars, jackVars, recVars, rtVars, fineVars, histVars>>
    /\ UNCHANGED <<ui_ret, stop_ret, record_adj, play_adj>>

\* A caller enters MidiRecord::stop, as record_callback does at line 1107.
RecCallStop ==
    /\ ui_pc = "idle"
    /\ ui_pc' = "stop_144"
    /\ stop_ret' = "idle"
    /\ w_calls' = w_calls + 1
    /\ UNCHANGED <<ani_execute, ani_thd, main_pc, main_ret, xkbVars, synthVars>>
    /\ UNCHANGED <<tableVars, jackVars, recVars, rtVars, fineVars, histVars>>
    /\ UNCHANGED <<ui_ret, record_adj, play_adj>>

\* The calls of MidiRecord::start and stop, one statement at a time.
MidiRecord == RecStart \/ Stop144 \/ Stop145 \/ Stop147

(* ------------------------------- XSynth ------------------------------- *)

\* A handle is modelled by whether it is non-NULL; sf_id is the id of the
\* loaded soundfont or -1; unloads lists the calls of fluid_synth_sfunload
\* as <<synth is non-NULL, sf_id>>; xs_call is the number and the name of
\* the last member function called.
SynthFrame ==
    /\ UNCHANGED <<xkbVars, aniVars>>
    /\ UNCHANGED <<tableVars, jackVars, recVars, rtVars, uiVars, fineVars, histVars>>

\* XSynth::setup, lines 52-60: settings = new_fluid_settings().
setup ==
    /\ settings' = TRUE
    /\ xs_call' = <<xs_call[1] + 1, "setup">>
    /\ UNCHANGED <<sf_id, synth, adriver, mdriver, unloads, load_ret>>
    /\ SynthFrame

\* XSynth::init_synth, lines 62-66: the three handles are what the library
\* returns: an object, or NULL when it fails or is given a NULL argument.
init_synth ==
    /\ \E s \in (IF settings THEN BOOLEAN ELSE {FALSE}) :
       \E a, m \in (IF s THEN BOOLEAN ELSE {FALSE}) :
          /\ synth' = s
          /\ adriver' = a
          /\ mdriver' = m
    /\ xs_call' = <<xs_call[1] + 1, "init_synth">>
    /\ UNCHANGED <<sf_id, settings, unloads, load_ret>>
    /\ SynthFrame

\* XSynth::load_soundfont, lines 68-76: a loaded soundfont is unloaded
\* first; fluid_synth_sfload returns a fresh positive id, or -1 when it
\* fails or there is no synth; the function returns 1 for -1 and 0
\* otherwise.
load_soundfont ==
    /\ unloads' = IF sf_id # -1 THEN Append(unloads, <<synth, sf_id>>)
                  ELSE unloads
    /\ \E id \in (IF synth THEN {-1, xs_call[1] + 1} ELSE {-1}) :
          /\ sf_id' = id
          /\ load_ret' = IF id = -1 THEN 1 ELSE 0
    /\ xs_call' = <<xs_call[1] + 1, "load_soundfont">>
    /\ UNCHANGED <<synth, settings, adriver, mdriver>>
    /\ SynthFrame

\* XSynth::unload_synth, lines 97-118 (also ~XSynth, line 49): if (sf_id),
\* which -1 passes, the soundfont is unloaded and sf_id set to -1; then
\* every handle that is not NULL is deleted and set to NULL.
unload_synth ==
    /\ unloads' = IF sf_id # 0 THEN Append(unloads, <<synth, sf_id>>)
                  ELSE unloads
    /\ sf_id' = IF sf_id # 0 THEN -1 ELSE sf_id
    /\ mdriver' = FALSE
    /\ adriver' = FALSE
    /\ synth' = FALSE
    /\ settings' = FALSE
    /\ xs_call' = <<xs_call[1] + 1, "unload_synth">>
    /\ UNCHANGED load_ret
    /\ SynthFrame

(* --------------------------- specification ---------------------------- *)

\* The state after the constructors (MidiMessenger, MidiRecord, XJack,
\* AnimatedKeyBoard, XSynth), add_keyboard and init_ui: no message pending,
\* both buffers empty, st and rec.st at store1, no worker thread, both
\* toggles off, no key held, octave 12*2, no synth and no soundfont.
Built(outcome) ==
    /\ send_cc = [i \in Slots |-> FALSE]
    /\ cc_num = [i \in Slots |-> 0]
    /\ pg_num = [i \in Slots |-> 0]
    /\ bg_num = [i \in Slots |-> 0]
    /\ me_num = [i \in Slots |-> 0]
    /\ channel = 0
    /\ record = 0
    /\ play = 0
    /\ fresh_take = TRUE
    /\ first_play = TRUE
    /\ start = 0
    /\ st = 1
    /\ store1 = <<>>
    /\ store2 = <<>>
    /\ p = 0
    /\ rec_st = 1
    /\ rec_play = <<>>
    /\ rec_execute = FALSE
    /\ thd = "none"
    /\ thd_i = 0
    /\ rt_pc = "idle"
    /\ rt_i = -1
    /\ rt_n = 0
    /\ now = 0
    /\ port = <<>>
    /\ ui_pc = "idle"
    /\ ui_ret = "idle"
    /\ stop_ret = "idle"
    /\ record_adj = 0
    /\ play_adj = 0
    /\ q_pc = [q \in Producers |-> "idle"]
    /\ q_arg = [q \in Producers |-> <<0, 0, 0, 0>>]
    /\ q_i = [q \in Producers |-> 0]
    /\ q_ret = [q \in Producers |-> "none"]
    /\ c_j = -1
    /\ c_len = 0
    /\ c_buf = Unwritten
    /\ called = {}
    /\ in_pc = "idle"
    /\ in_buf = <<>>
    /\ in_i = 0
    /\ in_blk = 0
    /\ task = "none"
    /\ submits = 0
    /\ clicks = 0
    /\ taken = <<>>
    /\ stamps = <<>>
    /\ anchor = -1
    /\ notified = <<>>
    /\ owed = {}
    /\ handoffs = <<>>
    /\ fills = 0
    /\ entry_flags = <<0, 0>>
    /\ key_matrix = [j \in 0 .. 3 |-> {}]
    /\ octave = 24
    /\ shl = outcome
    /\ keyed = <<>>
    /\ hushed = 0
    /\ strokes = 0
    /\ m_call = <<0, "none", 0, FALSE>>
    /\ ani_execute = FALSE
    /\ ani_thd = "none"
    /\ main_pc = "idle"
    /\ main_ret = "idle"
    /\ w_calls = 0
    /\ sf_id = -1
    /\ synth = FALSE
    /\ settings = FALSE
    /\ adriver = FALSE
    /\ mdriver = FALSE
    /\ unloads = <<>>
    /\ load_ret = -1
    /\ xs_call = <<0, "XSynth">>

\* The program as built for a machine whose shift instruction keeps the low
\* five bits of the count; the keyboard specifications below also start
\* from the other build.
Init == Built("masked")

\* The consolidator holds its mutex m: from the return of cv.wait to the end
\* of the loop body, lines 159-165.
HoldsMutex == thd \in {"woken", "loop", "clear"}

\* A different callback, which would take the mutex m of the consolidator
\* before it pushes, swaps and notifies.
FrameStagedUnderLock == ~HoldsMutex /\ FrameStaged(TRUE)

\* jack_midi_event_reserve returns a buffer.
FrameStagedOk == FrameStaged(TRUE)
FrameIdleOk == FrameIdle(TRUE)

\* A different playback branch, which would keep a due entry whose
\* reservation failed for the next frame: cursor and anchor stay.
FrameIdleNoSpaceRetries ==
    /\ rt_pc = "frame"
    /\ rt_i < 0
    /\ play # 0 /\ Len(rec_play) > 0
    /\ LET start2 == IF first_play THEN now
                     ELSE IF record # 0 /\ fresh_take THEN now ELSE start
           p2 == IF first_play THEN 0 ELSE p
       IN /\ p2 < Len(rec_play)
          /\ now - start2 >= rec_play[p2 + 1][5]
          /\ start' = start2
          /\ p' = p2
    /\ first_play' = FALSE
    /\ fresh_take' = IF record # 0 THEN FALSE ELSE fresh_take
    /\ stamps' = Stamped(FALSE)
    /\ rt_n' = rt_n + 1
    /\ rt_pc' = IF rt_n + 1 = NFrames THEN "idle" ELSE "frame"
    /\ entry_flags' = AtFrameEnd(rt_n)
    /\ UNCHANGED <<tableVars, restVars, record, play, st, store1, store2>>
    /\ UNCHANGED <<recVars, rt_i, now, port, uiVars, fineVars>>
    /\ UNCHANGED <<submits, clicks, taken, anchor, notified, owed, handoffs, fills>>

\* jack_midi_event_reserve returns NULL: the port has no space left.
FrameStagedNoSpace == FrameStaged(FALSE)
FrameIdleNoSpace == FrameIdle(FALSE)

RealtimeNoSpace == FrameStagedNoSpace \/ FrameIdleNoSpace

Consolidator ==
    ConsCheck \/ ConsWait \/ ConsSpurious \/ ConsWake \/ ConsLoop \/ ConsClear

RecordCallback ==
    \/ RC1092 \/ RC1094 \/ RC1095 \/ RC1096 \/ RC1097 \/ RC1098
    \/ RecStart \/ RC1101 \/ Stop144 \/ Stop145 \/ Stop147

PlayCallback == PC1117 \/ PC1121 \/ PC1122 \/ PC1124

\* The user: keys pressed and clicks on the two toggles, MaxSubmits and
\* MaxClicks of them.
User ==
    \/ submits < MaxSubmits /\ PlayNote
    \/ clicks < MaxClicks /\ ClickRecord
    \/ clicks < MaxClicks /\ ClickPlay

\* The program: the UI thread, the realtime thread (MaxTime blocks) and the
\* consolidator thread, freely interleaved.
Next ==
    \/ User
    \/ RecordCallback \/ PlayCallback
    \/ now < MaxTime /\ BlockStart
    \/ FrameStagedOk \/ FrameIdleOk \/ RealtimeNoSpace
    \/ Consolidator

Spec == Init /\ [][Next]_vars

\* The same program under the most favourable schedule: the consolidator
\* runs as soon as it can and parks before anything else happens, a UI
\* handler runs to its end (or to its join) without a block in between, a
\* block runs to its end without a UI event in between, every reservation
\* succeeds and there is no spurious wakeup.  Only recording is used.
ConsolidatorBusy == thd \in {"check", "lock", "woken", "loop", "clear"}

SeqConsolidator ==
    ConsCheck \/ ConsWait \/ ConsWake \/ ConsLoop \/ ConsClear

SeqUser ==
    /\ ~ConsolidatorBusy /\ rt_pc = "idle"
    /\ \/ submits < MaxSeqSubmits /\ PlayNote
       \/ clicks < MaxSeqClicks /\ ClickRecord

SeqHandler == ~ConsolidatorBusy /\ RecordCallback

SeqRealtime ==
    /\ ~ConsolidatorBusy /\ ui_pc = "idle"
    /\ \/ now < MaxSeqTime /\ BlockStart
       \/ FrameStagedOk \/ FrameIdleOk

SeqNext == SeqConsolidator \/ SeqUser \/ SeqHandler \/ SeqRealtime

SeqSpec == Init /\ [][SeqNext]_vars

\* Recording and playback under the same schedule as SeqSpec: a take is
\* recorded and consolidated, then played in a loop; a reservation of the
\* port may fail at any frame.
PlayUser ==
    /\ ~ConsolidatorBusy /\ rt_pc = "idle"
    /\ \/ submits < MaxPlaySubmits /\ PlayNote
       \/ clicks < MaxPlayClicks /\ ClickRecord
       \/ clicks < MaxPlayClicks /\ ClickPlay

PlayHandler == ~ConsolidatorBusy /\ (RecordCallback \/ PlayCallback)

PlayRealtime ==
    /\ ~ConsolidatorBusy /\ ui_pc = "idle"
    /\ \/ now < MaxPlayTime /\ BlockStart
       \/ FrameStagedOk \/ FrameIdleOk
       \/ RealtimeNoSpace

PlayNext == SeqConsolidator \/ PlayUser \/ PlayHandler \/ PlayRealtime

PlaySpec == Init /\ [][PlayNext]_vars

\* Takes that are recorded, stopped and played, under the schedule of
\* SeqSpec: notes and program changes are sent while Record is on, Play is
\* switched on afterwards, and every reservation succeeds.
RoundUser ==
    /\ ~ConsolidatorBusy /\ rt_pc = "idle"
    /\ \/ submits < MaxRoundSubmits /\ record # 0 /\ PlayNote
       \/ submits < MaxRoundSubmits /\ record # 0 /\ Send(ProgramChange)
       \/ clicks < MaxRoundClicks /\ ClickRecord
       \/ clicks < MaxRoundClicks /\ play = 0 /\ ClickPlay

RoundRealtime ==
    /\ ~ConsolidatorBusy /\ ui_pc = "idle"
    /\ \/ now < MaxRoundTime /\ BlockStart
       \/ FrameStagedOk \/ FrameIdleOk

RoundNext == SeqConsolidator \/ RoundUser \/ PlayHandler \/ RoundRealtime

RoundSpec == Init /\ [][RoundNext]_vars

\* One recording session in which notes are played while Record is on; the
\* realtime thread and the consolidator run at any relative speed.
CapUser ==
    \/ clicks < 1 /\ ClickRecord
    \/ /\ submits < MaxCapSubmits
       /\ record # 0 /\ ui_pc = "idle"
       /\ PlayNote

\* record_callback with value > 0, lines 1091-1099.
CapHandler == RC1092 \/ RC1094 \/ RC1095 \/ RC1096 \/ RC1097 \/ RC1098 \/ RecStart

CapNext ==
    \/ CapUser
    \/ CapHandler
    \/ now < MaxCapTime /\ BlockStart
    \/ FrameStagedOk \/ FrameIdleOk
    \/ Consolidator

CapSpec == Init /\ [][CapNext]_vars

\* The same session with threads that are scheduled fairly.  The user stops
\* playing one block before the last, so that the callback writes every
\* staged note before the run ends.
FairUser ==
    \/ clicks < 1 /\ ClickRecord
    \/ /\ submits < MaxCapSubmits /\ now + 1 < MaxCapTime
       /\ record # 0 /\ ui_pc = "idle"
       /\ PlayNote

FairRealtime ==
    \/ now < MaxCapTime /\ BlockStart
    \/ FrameStagedOk \/ FrameIdleOk

\* The consolidator wakes when it is notified only.
FairNext == FairUser \/ CapHandler \/ FairRealtime \/ SeqConsolidator

\* A step of the thread lambda that stays possible is taken, and JACK keeps
\* calling jack_process.
FairSpec ==
    /\ Init /\ [][FairNext]_vars
    /\ WF_vars(SeqConsolidator)
    /\ WF_vars(FairRealtime)

\* One recording session that is stopped after its last note: Record on,
\* notes played while Record is on, Record off; the realtime thread and the
\* consolidator run at any relative speed.
OrderUser ==
    \/ clicks = 0 /\ ClickRecord
    \/ /\ clicks = 1 /\ submits = MaxOrderSubmits
       /\ rt_pc = "idle" /\ now = MaxOrderTime
       /\ ClickRecord
    \/ /\ submits < MaxOrderSubmits
       /\ record # 0 /\ ui_pc = "idle"
       /\ PlayNote

OrderNext ==
    \/ OrderUser
    \/ RecordCallback
    \/ now < MaxOrderTime /\ BlockStart
    \/ FrameStagedOk \/ FrameIdleOk
    \/ SeqConsolidator

OrderSpec == Init /\ [][OrderNext]_vars

\* Recording sessions one after the other: Record is switched on and off
\* and notes are played at any time; the UI thread, the realtime thread and
\* the consolidator run at any relative speed.
SessionNext ==
    \/ clicks < MaxSessionClicks /\ ClickRecord
    \/ submits < MaxSessionSubmits /\ PlayNote
    \/ RecordCallback
    \/ now < MaxSessionTime /\ BlockStart
    \/ FrameStagedOk \/ FrameIdleOk
    \/ SeqConsolidator

SessionSpec == Init /\ [][SessionNext]_vars

\* The two toggles alone: the user switches Record and Play on and off in
\* any order, each handler runs on the UI thread, and the realtime thread
\* and the consolidator run at any relative speed.
ToggleNext ==
    \/ clicks < MaxToggles /\ ClickRecord
    \/ clicks < MaxToggles /\ ClickPlay
    \/ RecordCallback \/ PlayCallback
    \/ now < MaxToggleTime /\ BlockStart
    \/ FrameStagedOk \/ FrameIdleOk
    \/ Consolidator

ToggleSpec == Init /\ [][ToggleNext]_vars

\* The computer keyboard alone: the octave slider is set before the first
\* stroke and left there; then keys are pressed (with or without Control)
\* and released in any order, on either build.
KeysNext ==
    \/ \E v \in 0 .. 4 : strokes = 0 /\ octave_callback(v)
    \/ \E ctl \in BOOLEAN, sym \in KeySyms :
          strokes < MaxStrokes /\ key_press(ctl, sym)
    \/ \E sym \in KeySyms : strokes < MaxStrokes /\ key_release(sym)

KeysSpec == (\E o \in ShiftOutcomes : Built(o)) /\ [][KeysNext]_vars

\* The note numbers at which the word or the shift count of the matrix
\* functions changes.
MatrixKeys == {0, 1, 31, 32, 62, 63, 93, 94, 95, 126, 127}

\* The key matrix functions alone, called in any order with any arguments,
\* on either build.
MatrixNext ==
    \/ \E key \in MatrixKeys, set \in BOOLEAN :
          m_call[1] < MaxMatrixCalls /\ MatrixSet(key, set)
    \/ m_call[1] < MaxMatrixCalls /\ MatrixClear

MatrixSpec == (\E o \in ShiftOutcomes : Built(o)) /\ [][MatrixNext]_vars

\* The two workers alone: start() and stop() are called on each in any
\* order by one caller per worker, while the worker threads run at any
\* speed and cv.wait may return spuriously.
WorkerNext ==
    \/ w_calls < MaxWorkerCalls /\ AniCallStart
    \/ w_calls < MaxWorkerCalls /\ AniCallStop
    \/ w_calls < MaxWorkerCalls /\ RecCallStart
    \/ w_calls < MaxWorkerCalls /\ RecCallStop
    \/ AnimatedKeyBoard
    \/ MidiRecord
    \/ Consolidator

WorkerSpec == Init /\ [][WorkerNext]_vars

\* XSynth alone: after construction its member functions are called in any
\* order, and the synth library succeeds or fails at each call.
SynthNext ==
    \/ xs_call[1] < MaxSynthCalls /\ setup
    \/ xs_call[1] < MaxSynthCalls /\ init_synth
    \/ xs_call[1] < MaxSynthCalls /\ load_soundfont
    \/ xs_call[1] < MaxSynthCalls /\ unload_synth

SynthSpec == Init /\ [][SynthNext]_vars

\* Calls of send_midi_cc with three different messages on two channels,
\* and the realtime callback that drains the table.
SendNext ==
    \/ \E m \in SendInputs : submits < MaxSends /\ Send(m)
    \/ \E c \in Channels : ChannelCallback(c)
    \/ now < MaxSendBlocks /\ BlockStart
    \/ FrameStagedOk \/ FrameIdleOk

SendSpec == Init /\ [][SendNext]_vars

\* A take is recorded and played while the toggles are used: the UI thread
\* runs its handlers while the realtime thread is between the test of line
\* 268 and the body of the playback branch.
PlaybackNext ==
    \/ clicks < MaxPlaybackClicks /\ ClickRecord
    \/ clicks < MaxPlaybackClicks /\ ClickPlay
    \/ submits < MaxPlaybackSubmits /\ record # 0 /\ PlayNote
    \/ RecordCallback \/ PlayCallback
    \/ now < MaxPlaybackTime /\ BlockStart
    \/ FrameStagedOk \/ FrameIdleTest \/ FrameIdlePlay
    \/ SeqConsolidator

PlaybackSpec == Init /\ [][PlaybackNext]_vars

(* ---------------- process_midi_in and its notifications --------------- *)

\* The input buffers jack_port_get_buffer can return, line 353.
RECURSIVE InBuffers(_)
InBuffers(n) ==
    IF n = 0 THEN {<<>>}
    ELSE InBuffers(n - 1) \cup
         {Append(b, e) : b \in {x \in InBuffers(n - 1) : Len(x) = n - 1},
                         e \in InEvents}

\* jack_process, lines 350-354: the callback is entered and calls
\* process_midi_in with the input buffer of the block.
InBlockStart(buf) ==
    /\ rt_pc = "idle"
    /\ in_pc \in {"idle", "done"}
    /\ in_blk = now
    /\ in_blk' = in_blk + 1
    /\ in_buf' = buf
    /\ in_i' = 0
    /\ in_pc' = "event"
    /\ notified' = <<>>
    /\ UNCHANGED <<tableVars, restVars, jackVars, recVars, rtVars, uiVars>>
    /\ UNCHANGED <<submits, clicks, taken, stamps, anchor, owed, handoffs, fills>>
    /\ UNCHANGED <<entry_flags, q_pc, q_arg, q_i, q_ret, c_j, c_len, c_buf, called, task>>

\* process_midi_in, lines 310-320: one event of the loop.  For a note of
\* the keyboard's channel std::async(std::launch::async, ...) starts a
\* thread that runs trigger_get_midi_in; the future it returns is a
\* temporary, destroyed at the end of the statement.
InEvent ==
    /\ in_pc = "event"
    /\ IF in_i < Len(in_buf)
       THEN IF Notifies(in_buf[in_i + 1])
            THEN task' = "running" /\ in_pc' = "join" /\ in_i' = in_i
            ELSE task' = task /\ in_pc' = in_pc /\ in_i' = in_i + 1
       ELSE task' = task /\ in_pc' = "done" /\ in_i' = in_i
    /\ notified' = IF in_i < Len(in_buf) THEN Notified(in_buf[in_i + 1])
                   ELSE notified
    /\ UNCHANGED <<tableVars, restVars, jackVars, recVars, rtVars, uiVars>>
    /\ UNCHANGED <<submits, clicks, taken, stamps, anchor, owed, handoffs, fills>>
    /\ UNCHANGED entry_flags
    /\ UNCHANGED <<q_pc, q_arg, q_i, q_ret, c_j, c_len, c_buf, called>>
    /\ UNCHANGED <<in_buf, in_blk>>

\* The started thread: trigger_get_midi_in calls XKeyBoard::get_midi_in,
\* lines 409-410 and 511-514, and the thread ends.
GetMidiIn ==
    /\ task = "running"
    /\ task' = "done"
    /\ UNCHANGED <<tableVars, restVars, jackVars, recVars, rtVars, uiVars, histVars>>
    /\ UNCHANGED <<q_pc, q_arg, q_i, q_ret, c_j, c_len, c_buf, called>>
    /\ UNCHANGED <<in_pc, in_buf, in_i, in_blk>>

\* The destructor of the future returned by std::async, lines 317 and 319:
\* it returns once the started thread has ended, and the loop goes on.
FutureJoin ==
    /\ in_pc = "join"
    /\ task = "done"
    /\ task' = "none"
    /\ in_pc' = "event"
    /\ in_i' = in_i + 1
    /\ UNCHANGED <<tableVars, restVars, jackVars, recVars, rtVars, uiVars, histVars>>
    /\ UNCHANGED <<q_pc, q_arg, q_i, q_ret, c_j, c_len, c_buf, called>>
    /\ UNCHANGED <<in_buf, in_blk>>

\* The realtime thread's steps inside process_midi_in.
ProcessMidiIn == InEvent \/ FutureJoin

\* jack_process, lines 354-357: process_midi_out follows process_midi_in.
OutBlockStart == in_pc = "done" /\ in_blk = now + 1 /\ BlockStart

NotifyNext ==
    \/ \E buf \in InBuffers(MaxInEvents) : now < MaxInBlocks /\ InBlockStart(buf)
    \/ ProcessMidiIn
    \/ GetMidiIn
    \/ OutBlockStart
    \/ FrameStagedOk \/ FrameIdleOk
    \/ submits < MaxCalls /\ Submit

NotifySpec == Init /\ [][NotifyNext]_vars

\* Inbound events and the replay of a take in the same blocks, under the
\* schedule of PlaySpec: Record is switched on, notes of either channel are
\* recorded, Play is switched on and off; the Channel combobox is changed
\* at any time, one event arrives at the input port in each block while
\* Play is on, and a reservation of the port may fail.
EchoUser ==
    /\ ~ConsolidatorBusy /\ rt_pc = "idle"
    /\ \/ submits < MaxEchoSubmits /\ record # 0 /\ PlayNote
       \/ clicks = 0 /\ ClickRecord
       \/ clicks \in {1, 2} /\ ClickPlay
       \/ \E c \in Channels : ChannelCallback(c)

EchoRealtime ==
    /\ ~ConsolidatorBusy /\ ui_pc = "idle"
    /\ \/ \E buf \in (IF play # 0 THEN {<<e>> : e \in InEvents} ELSE {<<>>}) :
             now < MaxEchoTime /\ InBlockStart(buf)
       \/ ProcessMidiIn
       \/ OutBlockStart
       \/ FrameStagedOk \/ FrameIdleOk \/ RealtimeNoSpace

EchoNext ==
    SeqConsolidator \/ EchoUser \/ PlayHandler \/ EchoRealtime \/ GetMidiIn

EchoSpec == Init /\ [][EchoNext]_vars

(* ------------------- jack_process and its memcpy ---------------------- *)

\* The input buffers jack_port_get_buffer can return, line 352, their events
\* in the order of their frame offsets.
RECURSIVE TimedInBuffers(_)
TimedInBuffers(n) ==
    IF n = 0 THEN {<<>>}
    ELSE TimedInBuffers(n - 1) \cup
         UNION {{Append(b, e) : e \in {t \in TimedInEvents :
                                         \A k \in 1 .. (n - 1) : b[k][4] <= t[4]}} :
                b \in {x \in TimedInBuffers(n - 1) : Len(x) = n - 1}}

\* The content of a port as the sequence of its events <<frame, bytes>>.
InPort(buf) == [k \in 1 .. Len(buf) |-> <<buf[k][4], <<buf[k][1], buf[k][2], buf[k][3]>>>>]

\* The memory of a port buffer, byte by byte, in the most compact layout
\* that holds an event count and, for each event, its frame offset, its
\* size and three data bytes (record k at the bytes 5k-3 .. 5k+1).  Bytes
\* behind the last record hold pad.
PortByte(evs, k, pad) ==
    IF k = 1 THEN Len(evs)
    ELSE LET r == (k - 2) \div 5 + 1
             f == (k - 2) % 5
         IN IF r > Len(evs) THEN pad
            ELSE IF f = 0 THEN evs[r][1]
            ELSE IF f = 1 THEN Len(evs[r][2])
            ELSE IF f - 1 <= Len(evs[r][2]) THEN evs[r][2][f - 1]
            ELSE pad

\* memcpy(out, in, sizeof (unsigned char) * nframes), lines 355-356: byte k
\* of out afterwards.
MemcpyByte(out, in, n, k, pad) ==
    IF k <= n THEN PortByte(in, k, pad) ELSE PortByte(out, k, pad)

\* The events the output port holds after the memcpy, read back from its
\* memory.
AfterMemcpy(out, in, n, pad) ==
    LET B(k) == MemcpyByte(out, in, n, k, pad)
    IN [r \in 1 .. B(1) |->
          <<B(5 * r - 3),
            SubSeq(<<B(5 * r - 1), B(5 * r), B(5 * r + 1)>>, 1, B(5 * r - 2))>>]

\* jack_process, lines 355-357: after process_midi_in the first nframes
\* bytes of the input buffer are copied over the output buffer, and
\* process_midi_out starts its scan.
CopyBlockStart ==
    /\ rt_pc = "idle"
    /\ in_pc = "done" /\ in_blk = now + 1
    /\ now' = now + 1
    /\ rt_i' = next(-1)
    /\ rt_n' = 0
    /\ \E pad \in PadBytes : port' = AfterMemcpy(port, InPort(in_buf), NFrames, pad)
    /\ rt_pc' = "frame"
    /\ entry_flags' = <<record, play>>
    /\ UNCHANGED <<tableVars, restVars, jackVars, recVars, uiVars, fineVars>>
    /\ UNCHANGED <<submits, clicks, taken, stamps, anchor, notified, owed, handoffs, fills>>

\* Blocks with inbound events, and UI callbacks that stage messages.
PassNext ==
    \/ \E buf \in TimedInBuffers(MaxInEvents) : now < MaxInBlocks /\ InBlockStart(buf)
    \/ ProcessMidiIn
    \/ GetMidiIn
    \/ CopyBlockStart
    \/ FrameStagedOk \/ FrameIdleOk
    \/ submits < MaxCalls /\ Submit

PassSpec == Init /\ [][PassNext]_vars

(* ------------- the staging table fed by atomic calls ------------------ *)

\* The staging table alone: UI callbacks call send_midi_cc, each call one
\* step, and the realtime callback drains the table; nothing is recorded or
\* played and every reservation succeeds.
StageNext ==
    \/ submits < MaxSubmits /\ Submit
    \/ now < MaxStageTime /\ BlockStart
    \/ FrameStagedOk \/ FrameIdleOk

StageSpec == Init /\ [][StageNext]_vars

(* -------- the staging table, one load or store at a time -------------- *)

\* A different send_midi_cc, which would store the busy flag before the
\* payload fields.
WriteOrderFlagFirst == <<"store", "w_cc", "w_pg", "w_bg", "w_me">>

\* send_midi_cc, lines 113-117: the stores made into a free slot, in
\* program order; the busy flag is stored last.
WriteOrder == <<"w_cc", "w_pg", "w_bg", "w_me", "store">>

\* The position of producer q after the store named op.
AfterWrite(op) ==
    LET k == CHOOSE n \in 1 .. Len(WriteOrder) : WriteOrder[n] = op
    IN IF k = Len(WriteOrder) THEN "return" ELSE WriteOrder[k + 1]

\* send_midi_cc, line 107: i++ and the test i < max_midi_cc_cnt; the
\* function returns false when the loop ends.
Advance(q) ==
    IF q_i[q] + 1 < MaxMidiCcCnt
    THEN /\ q_i' = [q_i EXCEPT ![q] = q_i[q] + 1]
         /\ q_pc' = [q_pc EXCEPT ![q] = "load"]
         /\ UNCHANGED q_ret
    ELSE /\ q_pc' = [q_pc EXCEPT ![q] = "return"]
         /\ q_ret' = [q_ret EXCEPT ![q] = "full"]
         /\ UNCHANGED q_i

\* Thread q enters send_midi_cc(m), lines 105-107: _cc |= channel; i = 0.
QCall(q, m) ==
    /\ q_pc[q] = "idle"
    /\ q_arg' = [q_arg EXCEPT ![q] = WithChannel(m)]
    /\ q_i' = [q_i EXCEPT ![q] = 0]
    /\ q_ret' = [q_ret EXCEPT ![q] = "none"]
    /\ q_pc' = [q_pc EXCEPT ![q] = "load"]
    /\ called' = called \cup {WithChannel(m)}
    /\ submits' = submits + 1
    /\ UNCHANGED <<tableVars, restVars, jackVars, recVars, rtVars, uiVars>>
    /\ UNCHANGED <<c_j, c_len, c_buf, clicks, taken, stamps, anchor, notified, owed, handoffs, fills>>
    /\ UNCHANGED <<entry_flags, inVars>>

\* send_midi_cc, line 108: if (send_cc[i].load(acquire)).
QLoad(q) ==
    /\ q_pc[q] = "load"
    /\ q_pc' = [q_pc EXCEPT ![q] = IF send_cc[q_i[q]] THEN "cmp_cc" ELSE "load2"]
    /\ UNCHANGED <<tableVars, restVars, jackVars, recVars, rtVars, uiVars, histVars>>
    /\ UNCHANGED <<q_arg, q_i, q_ret, c_j, c_len, c_buf, called, inVars>>

\* send_midi_cc, lines 109-111: one operand of the && chain is read and
\* compared; the function returns true when the fourth one matches too.
QCmp(q) ==
    /\ q_pc[q] \in {"cmp_cc", "cmp_pg", "cmp_bg", "cmp_me"}
    /\ LET i == q_i[q]
           same == CASE q_pc[q] = "cmp_cc" -> cc_num[i] = q_arg[q][1]
                     [] q_pc[q] = "cmp_pg" -> pg_num[i] = q_arg[q][2]
                     [] q_pc[q] = "cmp_bg" -> bg_num[i] = q_arg[q][3]
                     [] q_pc[q] = "cmp_me" -> me_num[i] = q_arg[q][4]
       IN IF same
          THEN /\ q_pc' = [q_pc EXCEPT ![q] =
                             CASE q_pc[q] = "cmp_cc" -> "cmp_pg"
                               [] q_pc[q] = "cmp_pg" -> "cmp_bg"
                               [] q_pc[q] = "cmp_bg" -> "cmp_me"
                               [] q_pc[q] = "cmp_me" -> "return"]
               /\ q_ret' = [q_ret EXCEPT ![q] =
                              IF q_pc[q] = "cmp_me" THEN "found" ELSE q_ret[q]]
               /\ UNCHANGED q_i
          ELSE Advance(q)
    /\ UNCHANGED <<tableVars, restVars, jackVars, recVars, rtVars, uiVars, histVars>>
    /\ UNCHANGED <<q_arg, c_j, c_len, c_buf, called, inVars>>

\* send_midi_cc, line 112: else if (!send_cc[i].load(acquire)).
QLoad2(q) ==
    /\ q_pc[q] = "load2"
    /\ IF ~send_cc[q_i[q]]
       THEN /\ q_pc' = [q_pc EXCEPT ![q] = WriteOrder[1]]
            /\ UNCHANGED <<q_i, q_ret>>
       ELSE Advance(q)
    /\ UNCHANGED <<tableVars, restVars, jackVars, recVars, rtVars, uiVars, histVars>>
    /\ UNCHANGED <<q_arg, c_j, c_len, c_buf, called, inVars>>

\* send_midi_cc, lines 113-118: one store into slot i; after the last one
\* the function returns true.
QWrite(q) ==
    /\ q_pc[q] \in {"w_cc", "w_pg", "w_bg", "w_me", "store"}
    /\ LET i == q_i[q]
           op == q_pc[q]
       IN /\ cc_num' = IF op = "w_cc" THEN [cc_num EXCEPT ![i] = q_arg[q][1]] ELSE cc_num
          /\ pg_num' = IF op = "w_pg" THEN [pg_num EXCEPT ![i] = q_arg[q][2]] ELSE pg_num
          /\ bg_num' = IF op = "w_bg" THEN [bg_num EXCEPT ![i] = q_arg[q][3]] ELSE bg_num
          /\ me_num' = IF op = "w_me" THEN [me_num EXCEPT ![i] = q_arg[q][4]] ELSE me_num
          /\ send_cc' = IF op = "store" THEN [send_cc EXCEPT ![i] = TRUE] ELSE send_cc
          /\ q_pc' = [q_pc EXCEPT ![q] = AfterWrite(op)]
          /\ q_ret' = [q_ret EXCEPT ![q] =
                         IF AfterWrite(op) = "return" THEN "stored" ELSE q_ret[q]]
    /\ UNCHANGED <<channel, restVars, jackVars, recVars, rtVars, uiVars, histVars>>
    /\ UNCHANGED <<q_arg, q_i, c_j, c_len, c_buf, called, inVars>>

\* send_midi_cc returns to its caller.
QReturn(q) ==
    /\ q_pc[q] = "return"
    /\ q_pc' = [q_pc EXCEPT ![q] = "idle"]
    /\ UNCHANGED <<tableVars, restVars, jackVars, recVars, rtVars, uiVars, histVars>>
    /\ UNCHANGED <<q_arg, q_i, q_ret, c_j, c_len, c_buf, called, inVars>>

\* jack_process is entered for the next block and process_midi_out calls
\* mmessage->next(), line 238: the scan starts at i = -1.
TBlockStart ==
    /\ rt_pc = "idle"
    /\ now' = now + 1
    /\ rt_n' = 0
    /\ port' = <<>>
    /\ c_j' = -1
    /\ rt_pc' = "scan"
    /\ UNCHANGED <<tableVars, restVars, jackVars, recVars, rt_i, uiVars, histVars>>
    /\ UNCHANGED <<q_pc, q_arg, q_i, q_ret, c_len, c_buf, called, inVars>>

\* MidiMessenger::next, lines 88-93: ++i, the bound test and one load of
\* send_cc[i].  With the result i, the frame loop goes on while
\* n < nframes; neither record nor play is set, so that a frame with i < 0
\* does nothing and the block ends.
TScan ==
    /\ rt_pc = "scan"
    /\ LET j == c_j + 1
       IN IF j >= MaxMidiCcCnt
          THEN /\ rt_i' = -1
               /\ rt_pc' = "idle"
               /\ c_j' = c_j
          ELSE IF send_cc[j]
          THEN /\ rt_i' = j
               /\ rt_pc' = IF rt_n < NFrames THEN "reserve" ELSE "idle"
               /\ c_j' = j
          ELSE /\ UNCHANGED <<rt_i, rt_pc>>
               /\ c_j' = j
    /\ UNCHANGED <<tableVars, restVars, jackVars, recVars, rt_n, now, port, uiVars, histVars>>
    /\ UNCHANGED <<q_pc, q_arg, q_i, q_ret, c_len, c_buf, called, inVars>>

\* process_midi_out, line 245: jack_midi_event_reserve(buf, n, size(i))
\* reads me_num[i] and returns a buffer of that many bytes.
TReserve ==
    /\ rt_pc = "reserve"
    /\ c_len' = size(rt_i)
    /\ c_buf' = Unwritten
    /\ rt_pc' = "f_size"
    /\ UNCHANGED <<tableVars, restVars, jackVars, recVars, rt_i, rt_n, now, port>>
    /\ UNCHANGED <<uiVars, histVars, q_pc, q_arg, q_i, q_ret, c_j, called, inVars>>

\* process_midi_out, lines 245-246 and 266: jack_midi_event_reserve returns
\* NULL; the slot is left pending and i = mmessage->next(i) is called.
TReserveNoSpace ==
    /\ rt_pc = "reserve"
    /\ c_len' = size(rt_i)
    /\ c_j' = rt_i
    /\ rt_n' = rt_n + 1
    /\ rt_pc' = "scan"
    /\ UNCHANGED <<tableVars, restVars, jackVars, recVars, rt_i, now, port>>
    /\ UNCHANGED <<uiVars, histVars, q_pc, q_arg, q_i, q_ret, c_buf, called, inVars>>

\* MidiMessenger::fill, lines 97-102: one load of a payload field of slot
\* i, or the final store of send_cc[i] = false, after which the event of
\* c_len bytes is in the port buffer and, unless record is set,
\* i = mmessage->next(i) is called.
TFill ==
    /\ rt_pc \in {"f_size", "f_bg", "f_pg", "f_cc", "f_store"}
    /\ LET i == rt_i
       IN CASE rt_pc = "f_size" ->
                 /\ rt_pc' = IF size(i) = 3 THEN "f_bg" ELSE "f_pg"
                 /\ UNCHANGED <<c_buf, send_cc, port, rt_n, c_j>>
            [] rt_pc = "f_bg" ->
                 /\ c_buf' = [c_buf EXCEPT ![3] = bg_num[i]]
                 /\ rt_pc' = "f_pg"
                 /\ UNCHANGED <<send_cc, port, rt_n, c_j>>
            [] rt_pc = "f_pg" ->
                 /\ c_buf' = [c_buf EXCEPT ![2] = pg_num[i]]
                 /\ rt_pc' = "f_cc"
                 /\ UNCHANGED <<send_cc, port, rt_n, c_j>>
            [] rt_pc = "f_cc" ->
                 /\ c_buf' = [c_buf EXCEPT ![1] = cc_num[i]]
                 /\ rt_pc' = "f_store"
                 /\ UNCHANGED <<send_cc, port, rt_n, c_j>>
            [] rt_pc = "f_store" ->
                 /\ send_cc' = [send_cc EXCEPT ![i] = FALSE]
                 /\ port' = Append(port, <<rt_n, SubSeq(c_buf, 1, c_len)>>)
                 /\ rt_n' = rt_n + 1
                 /\ c_j' = i
                 /\ rt_pc' = IF record # 0 THEN "rec" ELSE "scan"
                 /\ UNCHANGED c_buf
    /\ UNCHANGED <<cc_num, pg_num, bg_num, me_num, channel, restVars>>
    /\ UNCHANGED <<jackVars, recVars, rt_i, now, uiVars, histVars>>
    /\ UNCHANGED <<q_pc, q_arg, q_i, q_ret, c_len, called, inVars>>

\* process_midi_out, lines 249-264, after fill has returned: the event is
\* built from the bytes in the port buffer and from mmessage->size(i), which
\* reads me_num[i] again, and is pushed onto *st; the buffers are swapped at
\* capacity; then i = mmessage->next(i) is called.
TRecord ==
    /\ rt_pc = "rec"
    /\ LET start1 == IF fresh_take THEN now ELSE start
           len == size(rt_i)
           ev == <<c_buf[1], c_buf[2], IF len > 2 THEN c_buf[3] ELSE 0,
                   len, now - start1>>
           s1 == IF st = 1 THEN Append(store1, ev) ELSE store1
           s2 == IF st = 2 THEN Append(store2, ev) ELSE store2
           swap == SwapAfterPush(Len(s1), Len(s2), st, rec_st)
       IN /\ fresh_take' = FALSE
          /\ store1' = s1
          /\ store2' = s2
          /\ st' = swap[1]
          /\ rec_st' = swap[2]
          /\ thd' = IF swap[3] THEN NotifyOne(thd) ELSE thd
          /\ start' = now
          /\ taken' = Append(taken, ev)
          /\ stamps' = Stamped(TRUE)
    /\ rt_pc' = "scan"
    /\ UNCHANGED <<tableVars, restVars, record, play, first_play, p>>
    /\ UNCHANGED <<rec_play, rec_execute, thd_i, rt_i, rt_n, now, port>>
    /\ UNCHANGED <<uiVars, fineVars>>
    /\ UNCHANGED <<submits, clicks, owed, handoffs, fills, anchor, notified, entry_flags>>

\* The steps of thread q inside send_midi_cc.
Producer(q) == QLoad(q) \/ QCmp(q) \/ QLoad2(q) \/ QWrite(q) \/ QReturn(q)

\* The steps of the realtime thread inside process_midi_out.
Consumer == TScan \/ TReserve \/ TReserveNoSpace \/ TFill

\* One producer, the UI thread, and the realtime consumer.
TableNext1 ==
    \/ \E m \in Inputs : submits < MaxCalls /\ QCall(1, m)
    \/ Producer(1)
    \/ now < MaxBlocks /\ TBlockStart
    \/ Consumer

TableSpec1 == Init /\ [][TableNext1]_vars

\* Two producers with distinct tuples: the UI thread sends a note-on
\* (get_note) and the animation thread sends all-notes-off (play_callback).
TableNext2 ==
    \/ submits < MaxCalls /\ QCall(1, NoteOn)
    \/ submits < MaxCalls /\ QCall(2, AllNotesOff)
    \/ \E q \in Producers : Producer(q)
    \/ now < MaxBlocks /\ TBlockStart
    \/ Consumer

TableSpec2 == Init /\ [][TableNext2]_vars

\* The table at the same granularity while a take is recorded: Record is
\* switched on between two blocks, the UI thread submits messages of two
\* and of three bytes, and the realtime thread records what it writes.
RecTableNext ==
    \/ \E m \in Inputs : submits < MaxCalls /\ ui_pc = "idle" /\ QCall(1, m)
    \/ Producer(1)
    \/ clicks < 1 /\ q_pc[1] = "idle" /\ rt_pc = "idle" /\ ClickRecord
    \/ rt_pc = "idle" /\ CapHandler
    \/ ui_pc = "idle" /\ now < MaxBlocks /\ TBlockStart
    \/ Consumer \/ TRecord
    \/ SeqConsolidator

RecTableSpec == Init /\ [][RecTableNext]_vars

(* ------------------------------ claims -------------------------------- *)

\* record_callback has returned from rec.stop(): recording is off and the
\* consolidator thread has been joined.
RecordingStopped ==
    /\ ui_pc = "idle"
    /\ record = 0
    /\ thd = "none"

\* C1: once recording has been stopped, the Take (rec.play) holds exactly
\* the events the realtime callback recorded in that session, in the order
\* it recorded them, each with deltaTime >= 0.
C1_TakeIsWhatWasRecorded ==
    RecordingStopped =>
        /\ rec_play = taken
        /\ \A k \in 1 .. Len(rec_play) : rec_play[k][5] >= 0

\* C2: when record_callback stops the recording (lines 1101-1106), the
\* buffer it points rec.st at holds events whenever store1 or store2 does.
C2_StopDrainsTheOccupiedBuffer ==
    [][(ui_pc = "rc_1101" /\ ui_pc' = "stop_144"
        /\ (Len(store1) > 0 \/ Len(store2) > 0))
       => Len(IF rec_st' = 1 THEN store1' ELSE store2') > 0]_vars

\* C3: no tuple is ever pending in two slots at once: a send_midi_cc call
\* with a tuple that is already pending does not occupy another slot.
C3_NoTupleInTwoSlots ==
    \A i, j \in Slots :
        (send_cc[i] /\ send_cc[j] /\ SlotTuple(i) = SlotTuple(j)) => i = j

\* C4: with fewer distinct tuples than slots and reservations that succeed,
\* a tuple is written to the port only while a submission of it is
\* outstanding: never before it is submitted and only once for the
\* submissions made while it was pending.
C4_WrittenOncePerSubmission ==
    [][(rt_pc = "frame" /\ rt_i >= 0 /\ Len(port') = Len(port) + 1)
       => (Cardinality(Inputs) < MaxMidiCcCnt => SlotTuple(rt_i) \in owed)]_vars

\* C5: with two producers and distinct tuples, a call that returns true
\* after storing its tuple leaves that tuple pending in its slot, and a
\* pending slot holds one submitted tuple, never a mixture of two.
C5_AcceptedTupleKeepsItsSlot ==
    /\ [](\A i \in Slots : send_cc[i] => SlotTuple(i) \in called)
    /\ [][\A q \in Producers :
            (q_pc[q] # "return" /\ q_pc'[q] = "return" /\ q_ret'[q] = "stored")
            => /\ send_cc'[q_i[q]]
               /\ <<cc_num'[q_i[q]], pg_num'[q_i[q]],
                    bg_num'[q_i[q]], me_num'[q_i[q]]>> = q_arg[q]]_vars

\* The bytes fill copies for the tuple t.
TupleBytes(t) == IF t[4] = 3 THEN <<t[1], t[2], t[3]>> ELSE <<t[1], t[2]>>

\* The producer is between the first and the last store into a slot.
Writing(q) == q_pc[q] \in {"w_cc", "w_pg", "w_bg", "w_me", "store"}

\* C6: with one producer and the consumer interleaved load by load and
\* store by store, every payload fill has copied out is one whole submitted
\* tuple, and an occupied slot holds one whole submitted tuple that the
\* producer is not writing to.
C6_ConsumerCopiesWholeTuples ==
    /\ \A k \in 1 .. Len(port) :
          port[k][2] \in {TupleBytes(t) : t \in called}
    /\ \A i \in Slots :
          send_cc[i] => /\ SlotTuple(i) \in called
                        /\ ~(Writing(1) /\ q_i[1] = i)

\* C6: the consumer is inside fill for one slot while the producer is
\* writing another, and a payload has already been copied out in this block.
C6_Witness ==
    /\ Len(port) > 0
    /\ rt_pc \in {"f_bg", "f_pg", "f_cc", "f_store"}
    /\ Writing(1)

\* C7: MidiRecord::stop() always returns: while stop() waits in join (it
\* has already stored _execute = false and called notify_one), the
\* consolidator is not parked in cv.wait, where no further notification
\* would reach it.
C7_JoinIsNeverLeftWaiting ==
    ~(ui_pc = "stop_147" /\ thd = "waiting")

\* The consolidator is at a push_back onto rec.play.
ConsolidatorAppends ==
    thd = "loop" /\ thd_i < Len(Store(rec_st))

\* The realtime callback is at a frame whose playback branch reads rec.play.
PlaybackReads ==
    rt_pc = "frame" /\ rt_i < 0 /\ play # 0 /\ Len(rec_play) > 0

\* C8: the Take is never appended to by the consolidator while the realtime
\* callback reads it in Playing mode.
C8_NoAppendWhilePlaying ==
    ~(ConsolidatorAppends /\ PlaybackReads)

\* The notifications the realtime callback has issued in this session.
RtHandoffs == SelectSeq(handoffs, LAMBDA h : h.by = "rt")

\* C9: each time the active buffer reaches capacity exactly one buffer swap
\* and exactly one consolidator notification occur for that fill, and when
\* the consolidator has drained the handed-off buffer it is empty.
C9_OneSwapOneWakePerFill ==
    /\ [](/\ Len(RtHandoffs) = fills
          /\ \A k \in 1 .. Len(RtHandoffs) : RtHandoffs[k].swapped)
    /\ [][(thd = "clear" /\ thd' = "check")
          => Len(IF rec_st = 1 THEN store1' ELSE store2') = 0]_vars

\* C10: a first recording of N events, BufCap < N < 2 * BufCap, that has
\* been stopped made exactly two hand-offs, BufCap events at capacity and
\* N - BufCap events at the stop, and the Take has N entries.
C10_TwoHandoffs ==
    (/\ RecordingStopped
     /\ clicks = 2 /\ record_adj = 0 /\ play_adj = 0
     /\ Len(taken) > BufCap /\ Len(taken) < 2 * BufCap)
    => /\ Len(handoffs) = 2
       /\ handoffs[1].by = "rt" /\ handoffs[1].len = BufCap
       /\ handoffs[2].by = "stop" /\ handoffs[2].len = Len(taken) - BufCap
       /\ Len(rec_play) = Len(taken)

\* The realtime callback is at a frame of the playback branch, with the
\* cursor and the anchor that frame works with (first_play resets both).
PlaybackCursor == IF first_play THEN 0 ELSE p
PlaybackAnchor == IF first_play THEN now ELSE start

\* The entry the playback branch reads, line 277, and whether it is due,
\* lines 275-278.
PlaybackEntry == rec_play[PlaybackCursor + 1]
PlaybackDue == now - PlaybackAnchor >= PlaybackEntry[5]

\* C11: playback replays the Take in recorded order and loops: a frame of
\* the playback branch whose entry is due writes that entry and no other
\* (or nothing, when the port has no space), moves the cursor to the next
\* entry, to entry 0 after entry N-1, and resets the anchor to the time of
\* this emission; a frame whose entry is not due writes nothing and keeps
\* the cursor and the anchor; nothing else moves the cursor.
C11_PlaybackLoopsInOrder ==
    [][PlaybackReads =>
        /\ PlaybackCursor < Len(rec_play)
        /\ IF rt_n' = rt_n
           THEN port' = port /\ p' = p /\ start' = start
           ELSE IF PlaybackDue
           THEN /\ port' \in {port, Append(port, <<rt_n, PlayBytes(PlaybackEntry)>>)}
                /\ p' = (PlaybackCursor + 1) % Len(rec_play)
                /\ start' = now
           ELSE /\ port' = port
                /\ p' = PlaybackCursor
                /\ start' = PlaybackAnchor
    ]_vars

\* C11: a Take of two different entries, the second recorded a block after
\* the first, is being played; its last entry has just been written to the
\* port and the cursor is back at entry 0 with the anchor at this emission.
C11_Witness ==
    /\ play # 0 /\ ~first_play /\ rt_pc = "frame"
    /\ Len(rec_play) >= 2 /\ rec_play[1] # rec_play[Len(rec_play)]
    /\ rec_play[Len(rec_play)][5] > 0
    /\ p = 0 /\ start = now
    /\ Len(port) > 0
    /\ port[Len(port)] = <<rt_n - 1, PlayBytes(rec_play[Len(rec_play)])>>

\* A step that completes one frame of the loop of process_midi_out.
FrameStep == rt_pc = "frame" /\ rt_n' = rt_n + 1

\* C12: a change of record or play made while the callback processes a block
\* does not affect the remaining frames of that block: a frame records the
\* staged message it writes exactly when the invocation began with record
\* on, writes a playback event only when the invocation began with play on,
\* and, when the invocation began with play on, does not leave a due entry
\* of the Take unplayed.
C12_FlagChangeWaitsForNextBlock ==
    [][FrameStep =>
        /\ (taken' # taken) <=> (entry_flags[1] # 0 /\ rt_i >= 0 /\ port' # port)
        /\ (rt_i < 0 /\ port' # port) => entry_flags[2] # 0
        /\ (rt_i < 0 /\ entry_flags[2] # 0 /\ PlaybackCursor < Len(rec_play)
              /\ PlaybackDue /\ ~first_play)
             => start' = now
    ]_vars

\* The realtime thread is inside process_midi_in.
InsideProcessMidiIn == in_pc \in {"event", "join"}

\* C13: the notification is fire-and-forget: the realtime thread inside
\* process_midi_in can always take its next step, whether or not the
\* handler of a notification it has issued has run to completion.
C13_RealtimeNeverWaitsForHandler ==
    InsideProcessMidiIn => ENABLED ProcessMidiIn

\* The consolidator is between the first read of *st (line 160) and the
\* clear() of line 163 on the buffer rec.st points at.
ConsolidatorDrains(b) == thd \in {"loop", "clear"} /\ rec_st = b

\* C14: exactly one buffer is the active one, and the realtime thread never
\* appends to a buffer (st->push_back) while the consolidator reads or
\* clears that same buffer.
C14_ConsolidatorKeepsOffActiveBuffer ==
    [][/\ st \in {1, 2}
       /\ (taken' # taken) => ~ConsolidatorDrains(st)
    ]_vars

\* C15: neither store1 nor store2 ever holds more events than its capacity.
C15_BuffersWithinCapacity ==
    Len(store1) <= BufCap /\ Len(store2) <= BufCap

\* The Take holds, in order, the events of the first k buffers that were
\* handed off at capacity.
TakeHoldsFills(k) ==
    /\ Len(rec_play) >= k * BufCap
    /\ SubSeq(rec_play, 1, k * BufCap) = SubSeq(taken, 1, k * BufCap)

\* C16: with a consolidator that is scheduled fairly, every buffer handed
\* off at capacity is eventually appended to the Take in full: once the
\* k-th buffer has reached capacity, the Take comes to hold the events of
\* the first k full buffers.
C16_HandedOffBufferReachesTake ==
    \A k \in 1 .. 2 : (fills >= k) ~> TakeHoldsFills(k)

\* a is a subsequence of b: the entries of a occur in b in the same order.
RECURSIVE IsSubsequence(_, _)
IsSubsequence(a, b) ==
    IF Len(a) = 0 THEN TRUE
    ELSE IF Len(b) = 0 THEN FALSE
    ELSE IF Head(a) = Head(b) THEN IsSubsequence(Tail(a), Tail(b))
    ELSE IsSubsequence(a, Tail(b))

\* record_callback has stored record = 1 for a new session but has not yet
\* cleared the Take of the session before, lines 1092-1097.
SessionStarting ==
    \/ ui_pc \in {"rc_1094", "rc_1095", "rc_1096", "rc_1097"}
    \/ ui_pc \in {"pc_1117", "pc_1121", "pc_1122", "pc_1124"} /\ ui_ret = "rc_1095"

\* C17: during and after a recording session the Take is a subsequence, in
\* emission order and without duplicates, of the events the realtime
\* callback recorded in that session (each event is recorded once, so a
\* subsequence of the recorded events has no duplicates).
C17_TakeIsSubsequenceOfRecorded ==
    ~SessionStarting => IsSubsequence(rec_play, taken)

\* Every slot is occupied and none holds the tuple t.
TableFullWithout(t) == \A i \in Slots : send_cc[i] /\ SlotTuple(i) # t

\* The step changes nothing in the table.
TableUnchanged == UNCHANGED <<send_cc, cc_num, pg_num, bg_num, me_num>>

\* The step occupies the free slot k with the tuple t and changes no other
\* slot.
Occupies(k, t) ==
    /\ ~send_cc[k] /\ send_cc'[k]
    /\ <<cc_num'[k], pg_num'[k], bg_num'[k], me_num'[k]>> = t
    /\ \A i \in Slots \ {k} :
         /\ send_cc'[i] = send_cc[i]
         /\ <<cc_num'[i], pg_num'[i], bg_num'[i], me_num'[i]>> = SlotTuple(i)

\* C18: send_midi_cc returns false exactly when every slot is occupied and
\* none holds an identical tuple, and then changes nothing; in every other
\* case it returns true and either leaves the table unchanged, an identical
\* tuple being pending, or occupies exactly one slot that was free.
C18_FalseExactlyWhenFull ==
    [][\A m \in SendInputs :
        Send(m) =>
          LET t == WithChannel(m)
          IN /\ send_midi_cc_ret(m) = ~TableFullWithout(t)
             /\ TableFullWithout(t) => TableUnchanged
             /\ ~TableFullWithout(t) =>
                  \/ /\ \E i \in Slots : send_cc[i] /\ SlotTuple(i) = t
                     /\ TableUnchanged
                  \/ \E k \in Slots : Occupies(k, t)
    ]_vars

\* C18: before any block has run the table is full and a call has been made
\* with a tuple that no slot holds: that call returned false.
C18_Witness ==
    /\ now = 0
    /\ \A i \in Slots : send_cc[i]
    /\ \E t \in owed : \A i \in Slots : SlotTuple(i) # t

\* Exactly the slots of S are occupied.
OnlyOccupied(S) == \A i \in Slots : send_cc[i] <=> i \in S

\* j is the first slot after i that the flags b mark as occupied, or -1
\* when there is none.
FirstAfter(b, i, j) ==
    IF j = -1 THEN \A k \in Slots : k > i => ~b[k]
    ELSE /\ j \in Slots /\ j > i /\ b[j]
         /\ \A k \in Slots : (k > i /\ k < j) => ~b[k]

\* C19: two distinct tuples submitted one after the other to an empty
\* table occupy slot 0 and slot 1 in submission order, each with the
\* submitted status OR-ed with the channel (the sum, as the submitted status
\* bytes have a zero channel nibble); a block takes the occupied slots in
\* ascending order starting from the first one, writes the bytes the slot
\* holds and frees it; after the last occupied slot has been drained a scan
\* from -1 finds nothing.
C19_TwoTuplesInSubmissionOrder ==
    /\ [][\A m \in SendInputs :
            Send(m) =>
              LET t == <<m[1] + channel, m[2], m[3], m[4]>>
              IN /\ OnlyOccupied({}) =>
                      /\ send_cc' = [i \in Slots |-> i = 0]
                      /\ <<cc_num'[0], pg_num'[0], bg_num'[0], me_num'[0]>> = t
                 /\ (OnlyOccupied({0}) /\ SlotTuple(0) # t) =>
                      /\ send_cc' = [i \in Slots |-> i \in {0, 1}]
                      /\ <<cc_num'[0], pg_num'[0], bg_num'[0], me_num'[0]>> = SlotTuple(0)
                      /\ <<cc_num'[1], pg_num'[1], bg_num'[1], me_num'[1]>> = t
         ]_vars
    /\ [][(rt_pc = "idle" /\ rt_pc' = "frame") => FirstAfter(send_cc, -1, rt_i')]_vars
    /\ [][(rt_pc = "frame" /\ rt_i >= 0 /\ port' # port) =>
            /\ port' = Append(port, <<rt_n, SubSeq(SlotTuple(rt_i), 1, me_num[rt_i])>>)
            /\ send_cc' = [send_cc EXCEPT ![rt_i] = FALSE]
            /\ FirstAfter(send_cc', rt_i, rt_i')
            /\ OnlyOccupied({rt_i}) => \A k \in Slots : ~send_cc'[k]
         ]_vars

\* C19: on channel 1, a note-on and then a note-off of key 60 were
\* submitted to the empty table and one block has drained both: the port
\* holds them in that order at the frames 0 and 1 and no slot is occupied.
C19_Witness ==
    /\ channel = 1 /\ submits = 2 /\ now = 1 /\ rt_pc = "idle"
    /\ SlotTuple(0) = <<145, 60, 100, 3>>
    /\ SlotTuple(1) = <<129, 60, 100, 3>>
    /\ port = <<<<0, <<145, 60, 100>>>>, <<1, <<129, 60, 100>>>>>>
    /\ next(-1) = -1

\* C20: within one invocation of the realtime callback the staged messages
\* are written in strictly ascending slot index and each slot is visited at
\* most once: the scan position only moves upwards and, once the scan has
\* ended, stays ended; a frame writes at most one message, the one of the
\* slot at the scan position, so that the port holds at most one message
\* per frame offset; and a frame frees no other slot, so that a message
\* submitted during the block into a slot below the scan position stays
\* pending until a later block.
C20_AscendingScanOncePerBlock ==
    /\ [](\A a, b \in 1 .. Len(port) : a < b => port[a][1] < port[b][1])
    /\ [][FrameStep =>
            /\ rt_i' = -1 \/ rt_i' > rt_i
            /\ rt_i = -1 => rt_i' = -1
            /\ \/ port' = port
               \/ /\ rt_i >= 0
                  /\ port' = Append(port, <<rt_n, SubSeq(SlotTuple(rt_i), 1, me_num[rt_i])>>)
            /\ \A j \in Slots : (send_cc[j] /\ j # rt_i) => send_cc'[j]
         ]_vars

\* C20: inside a block whose frame 0 has written the message of slot 0, the
\* scan is at slot 1 and slot 0 is occupied again by a message submitted
\* during the block.
C20_Witness ==
    /\ rt_pc = "frame" /\ rt_n = 1 /\ rt_i = 1
    /\ Len(port) = 1 /\ port[1][1] = 0
    /\ send_cc[0] /\ send_cc[1]

\* A frame of the staged branch whose jack_midi_event_reserve returned NULL,
\* lines 246-247: nothing is written at this frame.
StagedReservationFails == FrameStep /\ rt_i >= 0 /\ port' = port

\* A frame of the playback branch whose entry is due and whose
\* jack_midi_event_reserve returned NULL, lines 278-280.
PlaybackReservationFails ==
    /\ FrameStep /\ PlaybackReads
    /\ PlaybackCursor < Len(rec_play) /\ PlaybackDue
    /\ port' = port

\* C21: an event whose reservation fails is skipped: it is not written at
\* that frame, the scan never returns to it within the block, and it is not
\* kept for a later block: the slot of a staged message is no longer pending
\* and the playback cursor has moved past the entry; the callback goes on
\* with its next frame.
C21_FailedReservationSkipsEvent ==
    [][/\ StagedReservationFails =>
            /\ rt_i' = -1 \/ rt_i' > rt_i
            /\ rt_pc' \in {"frame", "idle"}
            /\ ~send_cc'[rt_i]
       /\ PlaybackReservationFails =>
            /\ p' = (PlaybackCursor + 1) % Len(rec_play)
            /\ rt_pc' \in {"frame", "idle"}
    ]_vars

\* No handler of the UI thread is running.
HandlersReturned == ui_pc = "idle"

\* C22: once the handlers of the Record and Play toggles have returned, the
\* record flag and the play flag are not both nonzero, and each flag has the
\* value of its toggle.
C22_RecordAndPlayExclusive ==
    HandlersReturned =>
        /\ ~(record # 0 /\ play # 0)
        /\ record = record_adj /\ play = play_adj

\* C22: Record was switched on, a block ran in Recording mode, and Play was
\* then switched on, which stopped the recording: play_callback has
\* returned, the consolidator has been joined, and only play is set.
C22_Witness ==
    /\ HandlersReturned /\ clicks = 2
    /\ play # 0 /\ record = 0
    /\ thd = "none" /\ ~rec_execute /\ ~fresh_take

\* The events a sequence of recorded events holds.
Events(s) == {s[k] : k \in 1 .. Len(s)}

\* record_callback returns from a start of Recording, line 1100.
StartReturns == ui_pc \in {"rc_1100", "start_155"} /\ ui_pc' = "idle"

\* C23: entering Recording clears the Take and both RecordBuffers and sets
\* fresh_take: when record_callback returns from the start the Take is
\* empty, fresh_take has been set before, and from the clearing on the Take
\* and the two buffers hold only events that the realtime callback recorded
\* in this session, none of an earlier one (the notes played are all
\* different, so an event of an earlier session is none of this session).
C23_NewSessionStartsEmpty ==
    /\ [](~SessionStarting =>
            Events(rec_play) \cup Events(store1) \cup Events(store2)
                \subseteq Events(taken))
    /\ [][StartReturns => rec_play' = <<>>]_vars
    /\ [][(ui_pc = "rc_1098" /\ ui_pc' # ui_pc) => fresh_take']_vars

\* C23: a second session has been recorded and stopped and its Take holds
\* its events; the session before it had filled a buffer (store2 is still
\* the active one, and the second session recorded fewer than BufCap events).
C23_Witness ==
    /\ RecordingStopped /\ clicks = 4
    /\ st = 2 /\ Len(taken) > 0 /\ Len(taken) < BufCap
    /\ Len(rec_play) > 0

\* The tuple play_callback submits at line 1121: 0xB0 | channel, 123, 0.
AllNotesOffTuple == WithChannel(AllNotesOff)

\* play_callback with value < 1 completes its call of send_midi_cc,
\* line 1121, and its store to first_play, line 1122.
LeavePlaySends == ui_pc = "pc_1121" /\ ui_pc' = "pc_1122"
LeavePlayReturns == ui_pc = "pc_1122" /\ ui_pc' # ui_pc

\* C24: whenever playback is left, whatever the staging table holds at that
\* moment, the all-notes-off message is pending in the table once
\* play_callback has submitted it, and first_play is set when the handler
\* returns.
C24_LeavingPlaySendsAllNotesOff ==
    [][/\ LeavePlaySends =>
            \E i \in Slots :
                /\ send_cc'[i]
                /\ <<cc_num'[i], pg_num'[i], bg_num'[i], me_num'[i]>> = AllNotesOffTuple
       /\ LeavePlayReturns => first_play'
    ]_vars

\* jack_process passes from process_midi_in to process_midi_out.
EntersProcessMidiOut == rt_pc = "idle" /\ rt_pc' = "frame"

\* C25: within one block the output port holds every inbound event with its
\* bytes and at its frame offset, and nothing else but the insertions of
\* process_midi_out: when process_midi_out starts, the output port holds the
\* events of the input port, and each frame leaves the port as it is or
\* appends one event at its frame offset.
C25_OutputIsInputPlusInsertions ==
    /\ [][EntersProcessMidiOut => port' = InPort(in_buf)]_vars
    /\ [][FrameStep =>
            \/ port' = port
            \/ /\ Len(port') = Len(port) + 1
               /\ SubSeq(port', 1, Len(port)) = port
               /\ port'[Len(port')][1] = rt_n
         ]_vars

\* The next iteration of the frame loop of process_midi_out.
CallbackStep == FrameStagedOk \/ FrameIdleOk

\* C26: the realtime callback never waits for the consolidator: inside a
\* block its next frame can be taken in every state of the consolidator
\* thread (not started, before or in cv.wait, draining under its mutex,
\* exited), and a frame changes the state of that thread by waking it from
\* cv.wait only.
C26_CallbackNeverWaitsForConsolidator ==
    /\ [](rt_pc = "frame" => ENABLED CallbackStep)
    /\ [][FrameStep => (thd' = thd \/ (thd = "waiting" /\ thd' = "woken"))]_vars

\* C26: while the consolidator drains the buffer handed off before, under
\* its mutex, the callback has written and recorded a message in the frame
\* before and is at a frame with another staged message.
C26_Witness ==
    /\ HoldsMutex /\ record # 0
    /\ rt_pc = "frame" /\ rt_n > 0 /\ rt_i >= 0
    /\ Len(taken) >= BufCap
    /\ Len(port) > 0 /\ port[Len(port)][1] = rt_n - 1

\* record_callback executes store1.clear(), store2.clear(), rec.play.clear(),
\* lines 1095-1097.
ClearsStore1 == ui_pc = "rc_1095" /\ ui_pc' = "rc_1096"
ClearsStore2 == ui_pc = "rc_1096" /\ ui_pc' = "rc_1097"
ClearsTake == ui_pc = "rc_1097" /\ ui_pc' = "rc_1098"

\* C27: the clearing at the start of a session is complete before the
\* realtime thread appends the first event of the new take: what
\* record_callback clears holds no event that was recorded since record was
\* set for this session.
C27_ClearingWipesNoNewEvent ==
    [][/\ ClearsStore1 => Events(store1) \cap Events(taken) = {}
       /\ ClearsStore2 => Events(store2) \cap Events(taken) = {}
       /\ ClearsTake => Events(rec_play) \cap Events(taken) = {}
    ]_vars

\* The realtime thread pushes the event of the message it has just written.
RecordsWritten == rt_pc = "rec" /\ rt_pc' = "scan"

\* C28: every event appended while recording carries the status byte, the
\* data bytes and the byte length of the message that was written to the
\* output port in that frame, also when a producer writes into the slot
\* that fill has just released.
C28_RecordedEventMatchesWritten ==
    [][RecordsWritten =>
        LET ev == taken'[Len(taken')]
            msg == port[Len(port)][2]
        IN /\ ev[4] = Len(msg)
           /\ <<ev[1], ev[2]>> = <<msg[1], msg[2]>>
           /\ ev[3] = IF Len(msg) > 2 THEN msg[3] ELSE 0
    ]_vars

\* The messages a pass over the events s writes, in order.
Messages(s) == [k \in 1 .. Len(s) |-> PlayBytes(s[k])]

\* Play is on and its handler has returned: the recording has been stopped.
PlaybackRunning == play # 0 /\ record = 0 /\ HandlersReturned

\* C29: after a recording that has been stopped, one pass of playback emits
\* the messages that were emitted during the recording, with the same bytes
\* and lengths and in the same order: the Take that playback runs over
\* yields the messages of the recorded events in their order, and a frame
\* of playback that writes, writes the message of the entry at the cursor.
C29_PlaybackRepeatsRecording ==
    /\ [](PlaybackRunning => Messages(rec_play) = Messages(taken))
    /\ [][(PlaybackReads /\ FrameStep /\ port' # port) =>
            port' = Append(port, <<rt_n, Messages(rec_play)[PlaybackCursor + 1]>>)
         ]_vars

\* The consolidator executes st->clear(), line 164.
ConsolidatorClears == thd = "clear" /\ thd' = "check"

\* C30: a wakeup of the consolidator that answers no hand-off and no stop
\* loses no recorded event, whichever buffer rec.st points at and whatever
\* the realtime thread appends meanwhile: the buffer the consolidator clears
\* holds only events that it has appended to the Take.
C30_SpuriousWakeupLosesNoEvent ==
    [][ConsolidatorClears => Events(Store(rec_st)) \subseteq Events(rec_play)]_vars

\* The realtime callback clears fresh_take, lines 241-244.
AnchorsTake == fresh_take /\ ~fresh_take'

\* C31: after Recording is entered fresh_take stays true until the first
\* event of the new take is recorded: the step that clears fresh_take
\* records an event, and a frame processed while recording that records no
\* event leaves fresh_take as it is.
C31_FreshTakeUntilFirstEvent ==
    [][AnchorsTake => (record # 0 /\ Len(taken') = Len(taken) + 1)]_vars

\* The sum of the deltaTime fields of the first k events of s.
RECURSIVE SumDelta(_, _)
SumDelta(s, k) == IF k = 0 THEN 0 ELSE SumDelta(s, k - 1) + s[k][5]

\* C32: deltaTime of the first event of a take is the frame time of its
\* block minus the frame time at record start, deltaTime of every later
\* event is the frame time of its block minus that of the event recorded
\* before it, and so the first k deltaTimes add up to the frame time of the
\* block of the k-th event minus the frame time at record start, whichever
\* buffer the events went to.
C32_DeltasMeasureBlockTimes ==
    taken # <<>> =>
        /\ Len(stamps) = Len(taken) + 1
        /\ \A k \in 1 .. Len(taken) :
            /\ taken[k][5] = stamps[k + 1] - stamps[k]
            /\ SumDelta(taken, k) = stamps[k + 1] - stamps[1]

\* The playback branch writes an event to the port, lines 279-284.
PlaybackWrites ==
    /\ rt_pc = "play_270" \/ (rt_pc = "frame" /\ rt_i < 0)
    /\ port' # port

\* C33: during playback an event is never emitted early and never competes
\* with staged output: an entry of the Take is written only at a frame at
\* which no staged message was handled (the port holds nothing at that frame
\* offset, and a frame that handles a staged message writes nothing else),
\* and only when the frame time elapsed since the start of playback, or
\* since the event playback wrote before, is at least its deltaTime.
C33_PlaybackNeverEarly ==
    [][/\ (PlaybackWrites /\ PlaybackCursor < Len(rec_play)) =>
            /\ \A k \in 1 .. Len(port) : port[k][1] # rt_n
            /\ now - Anchored >= PlaybackEntry[5]
       /\ (FrameStep /\ rt_i >= 0) =>
            port' \in {port, Append(port, <<rt_n, FillBytes(rt_i)>>)}
    ]_vars

\* The realtime thread executes MidiEvent ev = rec.play[p], line 277.
ReadsTakeAtCursor ==
    \/ rt_pc = "play_270" /\ rt_pc' # rt_pc
    \/ PlaybackReads /\ FrameStep

\* C34: whenever the realtime callback reads the Take at the playback
\* cursor, the cursor is an index of the Take, 0 <= p < rec.play.size(),
\* whatever record_callback, play_callback and the callback have done
\* before, a new recording that clears the Take included.
C34_CursorIsValidIndex ==
    [][ReadsTakeAtCursor =>
        (0 <= PlaybackCursor /\ PlaybackCursor < Len(rec_play))]_vars

\* C35: when a playback entry is due and the reservation of the port fails,
\* the cursor still moves on (to 0 after the last entry), the anchor is set
\* to this frame time and no notification is issued: the entry is dropped
\* for this pass of the loop.  A staged message whose reservation fails
\* stays pending in its slot, unchanged, and is not recorded.
C35_FailedPlaybackDropsFailedStagedStays ==
    [][/\ PlaybackReservationFails =>
            /\ p' = (PlaybackCursor + 1) % Len(rec_play)
            /\ start' = now
            /\ notified' = notified
       /\ StagedReservationFails =>
            /\ send_cc'[rt_i]
            /\ <<cc_num'[rt_i], pg_num'[rt_i], bg_num'[rt_i], me_num'[rt_i]>>
                  = SlotTuple(rt_i)
            /\ taken' = taken /\ store1' = store1 /\ store2' = store2
    ]_vars

\* C35: playback of a Take of two notes of the keyboard's channel has begun
\* with a frame whose reservation failed: nothing is in the port, no
\* notification was issued, the cursor is at entry 1 and the anchor at this
\* frame time.
C35_Witness ==
    /\ play # 0 /\ ~first_play
    /\ rt_pc = "frame" /\ rt_n = 1 /\ port = <<>>
    /\ Len(rec_play) >= 2 /\ Notifies(rec_play[1])
    /\ p = 1 /\ start = now /\ notified = <<>>

\* The notification the UI is owed for an event whose first byte is the
\* status byte b and whose second byte is the note: one for 0x90 + channel
\* (on), one for 0x80 + channel (off), none for any other status byte.
Owed(e) ==
    IF e[1] = 144 + channel THEN <<<<e[2], TRUE>>>>
    ELSE IF e[1] = 128 + channel THEN <<<<e[2], FALSE>>>>
    ELSE <<>>

\* process_midi_in handles the event in_buf[in_i], lines 311-320.
HandlesInEvent ==
    /\ in_pc = "event" /\ in_i < Len(in_buf)
    /\ in_pc' # in_pc \/ in_i' # in_i

\* C36: for every inbound event and every replayed entry of the Take that
\* was written to the port, exactly one notification (note = second byte,
\* isOn) is issued if and only if the low nibble of the status byte is the
\* channel of the keyboard and the high nibble is 0x90 (isOn) or 0x80 (not
\* isOn); no other event and no other step issues a notification.
C36_NotifiesExactlyChannelNotes ==
    [][/\ HandlesInEvent => notified' = notified \o Owed(in_buf[in_i + 1])
       /\ (PlaybackWrites /\ PlaybackCursor < Len(rec_play)) =>
            notified' = notified \o Owed(PlaybackEntry)
       /\ ~HandlesInEvent /\ ~PlaybackWrites => Len(notified') <= Len(notified)
    ]_vars

\* C36: in one invocation of jack_process a note of the keyboard's channel
\* arrived at the input port and a note of the Take was replayed, one
\* notification each; the Take holds a note of the other channel as well.
C36_Witness ==
    /\ in_pc = "done" /\ Len(in_buf) = 1 /\ Notifies(in_buf[1])
    /\ play # 0 /\ Len(port) > 0
    /\ Len(notified) = 2 /\ notified[2][1] # notified[1][1]
    /\ \E k \in 1 .. Len(rec_play) : ~Notifies(rec_play[k])


(* ------------------------- the computer keyboard ----------------------- *)

\* The requests of s that are for note n.
RequestsFor(n, s) == SelectSeq(s, LAMBDA r : r[1] = n)

\* The requests of s go note-on, note-off, note-on, ...
Alternates(s) == \A i \in 1 .. Len(s) : s[i][2] = (i % 2 = 1)

\* A request is handed to mk_send_note only for a MIDI note number, a
\* note-on only for a key that was not marked in key_matrix and a note-off
\* only for a key that was.
RequestsFollowMatrix ==
    keyed' # keyed =>
        LET r == keyed'[Len(keyed')]
        IN /\ r[1] \in 0 .. 127
           /\ r[2] = ~is_key_in_matrix(key_matrix, r[1])

\* C37 as stated: with the octave fixed, the requests for each note number
\* alternate strictly over the whole input, starting with a note-on, and
\* every request follows the matrix.
C37_RequestsAlternate ==
    /\ [](\A n \in 0 .. 127 : Alternates(RequestsFor(n, keyed)))
    /\ [][RequestsFollowMatrix]_vars

\* C37 as amended: with the octave fixed, the requests for each note number
\* that were submitted since the space bar was last pressed alternate
\* strictly, starting with a note-on, and every request follows the matrix.
C37_RequestsAlternateBetweenSpaces ==
    /\ [](\A n \in 0 .. 127 :
            Alternates(RequestsFor(n, SubSeq(keyed, hushed + 1, Len(keyed)))))
    /\ [][RequestsFollowMatrix]_vars

\* A key was held when the space bar was pressed, was released and pressed
\* again: two note-ons of one note with no note-off between them.
C37_Witness ==
    /\ hushed > 0 /\ Len(keyed) > hushed
    /\ keyed[hushed][2] /\ keyed[hushed + 1] = keyed[hushed]

\* C38: the key matrix is a set over the note numbers 0..127: a call
\* set_key_in_matrix(m, k, b) makes is_key_in_matrix(m, k) equal to b and
\* leaves is_key_in_matrix(m, j) as it was for every other j, and after
\* clear_key_matrix(m) have_key_in_matrix(m) is false.
C38_MatrixIsASet ==
    [][m_call' # m_call =>
         IF m_call'[2] = "set"
         THEN /\ is_key_in_matrix(key_matrix', m_call'[3]) = m_call'[4]
              /\ \A j \in (0 .. 127) \ {m_call'[3]} :
                    is_key_in_matrix(key_matrix', j)
                        = is_key_in_matrix(key_matrix, j)
         ELSE ~have_key_in_matrix(key_matrix')]_vars


(* ----------------------------- the workers ----------------------------- *)

\* start() creates the thread: lines 59 and 156.
AniCreates == main_pc \in {"start_55", "start_58"} /\ main_pc' = "idle"
RecCreates == ui_pc \in {"rc_1100", "start_155"} /\ ui_pc' = "idle"

\* is_running(), lines 68-71 and 169-172: _execute && _thd.joinable().
AniIsRunning == ani_execute /\ ani_thd # "none"
RecIsRunning == rec_execute /\ thd # "none"

\* stop() returns: from line 49 when there is no thread to join, or from
\* the join of line 50 (lines 145 and 147 for MidiRecord).
AniStopReturns == main_pc \in {"stop_49", "stop_50"} /\ main_pc' = main_ret
RecStopReturns == ui_pc \in {"stop_145", "stop_147"} /\ ui_pc' = stop_ret

\* No call of start() or stop() is in progress and the last one to have
\* changed _execute was a stop() (or there was none).
AniStopped == main_pc = "idle" /\ ~ani_execute
RecStopped == ui_pc = "idle" /\ ~rec_execute

\* C39: for AnimatedKeyBoard and MidiRecord alike, start() creates its
\* thread only when the worker has no thread (a running worker has been
\* stopped and joined first), so that at most one thread per worker is
\* alive; when stop() returns is_running() is false; and from then until the
\* next start() the worker has no thread, so that its body does not run.
C39_OneWorkerThreadStoppedByStop ==
    /\ [][AniCreates => ani_thd = "none"]_vars
    /\ [][RecCreates => thd = "none"]_vars
    /\ [][AniStopReturns => ~AniIsRunning']_vars
    /\ [][RecStopReturns => ~RecIsRunning']_vars
    /\ [](AniStopped => ani_thd = "none")
    /\ [](RecStopped => thd = "none")

\* Both workers were running when start() was called again: each call has
\* been through stop(), the old threads are joined, and the new ones are
\* about to be created.
C39_Witness ==
    /\ main_pc = "start_58" /\ ani_thd = "none"
    /\ ui_pc = "start_155" /\ thd = "none"


(* ------------------------------- XSynth -------------------------------- *)

\* C40: every unload that XSynth has asked of the synth was asked with a
\* synth instance and with the id of a loaded soundfont (sf_id # -1); when
\* unload_synth returns sf_id is -1 and all four handles are NULL; when
\* load_soundfont returns, it returns 0 exactly if sf_id # -1.
C40_UnloadsOnlyALoadedFont ==
    /\ \A i \in 1 .. Len(unloads) : unloads[i][1] /\ unloads[i][2] # -1
    /\ xs_call[2] = "unload_synth" =>
          sf_id = -1 /\ ~synth /\ ~settings /\ ~adriver /\ ~mdriver
    /\ xs_call[2] = "load_soundfont" => ((load_ret = 0) <=> (sf_id # -1))

====
